---- MODULE Spec2Model ----
(***************************************************************************)
(* State-machine model of aiofreepybox.Freepybox                          *)
(* (src/aiofreepybox/aiofreepybox.py): discovery, connection negotiation, *)
(* credential store, pairing loop, session bootstrap and close.           *)
(*                                                                         *)
(* Representation                                                          *)
(*   - Python None of a string-valued variable is the string None; of a   *)
(*     dict- or object-valued variable it is the empty tuple << >>, and a *)
(*     present value v is << v >>.                                        *)
(*   - Version strings are tuples of character codes ("v6" is <<118,54>>),*)
(*     so that slicing, split(".") and the lexicographic string           *)
(*     comparison of _check_api_version are computed, not assumed.        *)
(*   - A URL is the record of the parts the f-string concatenates.        *)
(*   - An aiohttp.ClientSession is an entry of sessions: its closed flag  *)
(*     and the keys of its connector pool (_connector._conns), in         *)
(*     insertion order.  A request that got an HTTP answer leaves its     *)
(*     connection key in the pool; closing the session empties the pool.  *)
(*   - Every await of a request or of a sleep is a step of its own; the   *)
(*     code between two awaits is part of the step that follows the       *)
(*     first.  Requests return: the answers vary.  The exceptions         *)
(*     modelled are the ones the code raises or handles itself, and the   *)
(*     ones its own statements raise on the inputs drawn: connect_ex on a *)
(*     name that does not resolve, a key that an answer does not hold.    *)
(***************************************************************************)
EXTENDS Integers, Sequences, FiniteSets, TLC

\* ------------------------------------------------------------------ bounds
\* Top-level calls (open / discover / close) started in one behaviour: with
\* every client, token file and argument (scenario "wide"), and with the plain
\* client and two targets (scenario "deep").
MaxOps == 1
MaxSeqOps == 3
\* Non-terminal answers (pending, unknown) the appliance gives in one pairing.
MaxPolls == 2

\* ------------------------------------------------------- program constants
None == "<None>"
_DEFAULT_API_VERSION == <<118, 54>>
_DEFAULT_DEVICE_NAME == "Freebox Server"
_DEFAULT_HOST == "mafreebox.freebox.fr"
_DEFAULT_HTTP_PORT == "80"
_DEFAULT_HTTPS_PORT == "443"
_DEFAULT_SSL == TRUE
_DEFAULT_UNKNOWN == "None"

\* The four keys _is_app_desc_valid and _readfile_app_token iterate over.
RequiredKeys == <<"app_id", "app_name", "app_version", "device_name">>

\* ------------------------------------------------------------ input sets
Range(q) == {q[i] : i \in 1..Len(q)}
ExtraKeys == {"extra"}
AllKeys == Range(RequiredKeys) \cup ExtraKeys
Values == {1, 2}

\* A descriptor (a Python dict) is a function from the keys it holds.
BaseDesc == [k \in Range(RequiredKeys) |-> 1]
WithKey(d, k, v) == [x \in DOMAIN d \cup {k} |-> IF x = k THEN v ELSE d[x]]
WithoutKey(d, k) == [x \in DOMAIN d \ {k} |-> d[x]]
\* The descriptors a client is created with: the four keys, one key more,
\* one key less.
ClientDescs ==
    {BaseDesc, WithKey(BaseDesc, "extra", 1)}
    \cup {WithoutKey(BaseDesc, k) : k \in Range(RequiredKeys)}
    \cup {WithoutKey(WithKey(BaseDesc, "extra", 1), "app_id")}
\* The descriptor keys of the token file found at start.
FileDescs ==
    {BaseDesc, WithKey(BaseDesc, "extra", 2), WithoutKey(BaseDesc, "device_name")}
    \cup {WithKey(BaseDesc, k, 2) : k \in Range(RequiredKeys)}
\* The token file found at start: missing, or holding app_token 1 and track_id
\* 1 (the n-th authorization the appliance issues later is numbered n + 1).
InitFiles ==
    {<< >>} \cup {<<[app_token |-> 1, track_id |-> 1, desc |-> d]>> : d \in FileDescs}

\* api_version arguments of the constructor; "v6" and "server", the older
\* "v5" and "v0", the newer "v9", and "v", which names no version.
Str_server == <<115, 101, 114, 118, 101, 114>>
ClientApiVersions ==
    {_DEFAULT_API_VERSION, Str_server, <<118, 53>>, <<118, 48>>, <<118, 57>>, <<118>>}
\* api_version strings the appliance advertises: "8.0", "10.0", "4.0".
ServerApiVersions == {<<56, 46, 48>>, <<49, 48, 46, 48>>, <<52, 46, 48>>}

HostV4 == "10.0.0.1"
HostV6 == "fe80::1"
HostName == "box.lan"
ApiDomain == "abcd.fbxos.fr"
\* (host, port) arguments of open() and discover().
CallArgs ==
    {<<None, None>>, <<HostV4, None>>, <<None, "80">>, <<HostV4, "443">>,
     <<HostName, "443">>, <<HostV6, None>>}

\* (host, port) arguments of the calls of a "deep" behaviour.
SeqArgs == {<<None, None>>, <<HostV4, "443">>, <<HostV6, None>>}

\* The /api_version answers of a Freebox.
FbxDescs ==
    {d \in [device_name : {_DEFAULT_DEVICE_NAME}, api_version : ServerApiVersions,
            api_base_url : {"/api/"}, https_available : BOOLEAN,
            api_domain : {ApiDomain}, https_port : {"8443"}] :
        d.api_version = <<49, 48, 46, 48>> => d.https_available}
\* The /api_version answer of some other JSON service.
ForeignDesc ==
    [device_name |-> "Other", api_version |-> <<56, 46, 48>>, api_base_url |-> "/api/",
     https_available |-> FALSE, api_domain |-> ApiDomain, https_port |-> "8443"]

\* The /api_version answer of a JSON service that names no device: an object
\* without the keys of a DiscoveryRecord.
NamelessDesc == [status |-> "ok"]
\* What an /api_version request is answered with when it is answered in JSON.
JsonAnswers(b) == {b, ForeignDesc, NamelessDesc}

\* Status values of GET login/authorize/{track_id}; "unknown" stands for itself
\* and for any value the loop does not name.
NonTerminal == {"pending", "unknown"}
Statuses == NonTerminal \cup {"granted", "denied", "timeout"}

\* Tasks that call the client; the sequential caller is t1.
Tasks == {"t1", "t2"}

\* What a behaviour starts from: the client (descriptor, api_version), the
\* token file, the appliance.  A client whose descriptor open() rejects never
\* reaches the file; the "server" pin is followed with the plain descriptor.
PlainFile == <<[app_token |-> 1, track_id |-> 1, desc |-> BaseDesc]>>
WideConfigs ==
    {c \in [scen : {"wide"}, desc : ClientDescs, file : InitFiles,
            ver : ClientApiVersions, box : FbxDescs] :
        /\ c.desc /= BaseDesc => c.file \in {<< >>, PlainFile} /\ c.box.https_available
        /\ c.desc /= BaseDesc \/ c.file \notin {<< >>, PlainFile}
              => c.ver = _DEFAULT_API_VERSION /\ c.box.api_version = <<56, 46, 48>>
        /\ c.ver \in {<<118, 53>>, <<118, 48>>, <<118, 57>>, <<118>>}
              \/ c.box.api_version = <<52, 46, 48>>
              => c.file = PlainFile /\ c.box.https_available}
DeepConfigs ==
    {c \in [scen : {"deep"},
            desc : {BaseDesc, WithKey(BaseDesc, "extra", 1), WithoutKey(BaseDesc, "app_id")},
            file : {<< >>, PlainFile}, ver : {_DEFAULT_API_VERSION},
            box : {b \in FbxDescs : b.https_available /\ b.api_version = <<56, 46, 48>>}] :
        /\ c.desc = WithKey(BaseDesc, "extra", 1) => c.file = << >>
        /\ c.desc = WithoutKey(BaseDesc, "app_id") => c.file = PlainFile}
Configs == WideConfigs \cup DeepConfigs

\* ------------------------------------------------------------------ state
VARIABLES
    app_desc,     \* self.app_desc
    api_version,  \* self.api_version
    fbx_desc,     \* self.fbx_desc
    fbx_from,     \* the connection key of the request fbx_desc answered (history)
    fbx_url,      \* self.fbx_url
    access,       \* self._access
    session,      \* self._session: 0 for None, else an index of sessions
    sessions,     \* every ClientSession created so far
    file,         \* content of self.token_file
    issued,       \* authorizations the appliance has issued
    ops,          \* top-level calls started
    box,          \* what the Freebox answers to /api_version
    scen,         \* the scenario of this behaviour
    frames        \* per task: position and locals of the running call

vars == <<app_desc, api_version, fbx_desc, fbx_from, fbx_url, access, session, sessions,
          file, issued, ops, box, scen, frames>>

\* ------------------------------------------------------- string helpers
IsDigit(c) == c >= 48 /\ c <= 57
\* s[1:]
Slice1(s) == IF Len(s) = 0 THEN << >> ELSE Tail(s)
\* s.split(".")[0]
RECURSIVE Split0(_)
Split0(s) ==
    IF Len(s) = 0 \/ Head(s) = 46 THEN << >> ELSE <<Head(s)>> \o Split0(Tail(s))
\* a < b on Python strings (code point by code point, a proper prefix first)
RECURSIVE StrLt(_, _)
StrLt(a, b) ==
    IF Len(b) = 0 THEN FALSE
    ELSE IF Len(a) = 0 THEN TRUE
    ELSE IF Head(a) /= Head(b) THEN Head(a) < Head(b)
    ELSE StrLt(Tail(a), Tail(b))
\* int(s) is defined on a non-empty string of digits, with or without a sign
\* (blanks and underscores, which int() also takes, are not among the inputs)
Digits(s) == Len(s) > 0 /\ \A i \in 1..Len(s) : IsDigit(s[i])
IntOk(s) == Digits(s) \/ (Len(s) > 1 /\ s[1] \in {43, 45} /\ Digits(Tail(s)))
RECURSIVE NatVal(_)
NatVal(s) ==
    IF Len(s) = 0 THEN 0 ELSE NatVal(SubSeq(s, 1, Len(s) - 1)) * 10 + (s[Len(s)] - 48)
IntVal(s) ==
    IF Len(s) > 0 /\ s[1] = 45 THEN 0 - NatVal(Tail(s))
    ELSE IF Len(s) > 0 /\ s[1] = 43 THEN NatVal(Tail(s))
    ELSE NatVal(s)
\* int(port) of the port strings in use
PortNum(p) ==
    CASE p = "80" -> 80
      [] p = "443" -> 443
      [] p = "8443" -> 8443
      [] OTHER -> 0

\* ------------------------------------------------------- pure functions
\* _is_ipv4 / _is_ipv6: ipaddress accepts the address of that family only.
_is_ipv4(ip_address) == ip_address = HostV4
Mut_never_is_ipv6(ip_address) == FALSE
_is_ipv6(ip_address) == ip_address = HostV6

\* all(k in app_desc for k in (...)): the generator stops at the first False.
RECURSIVE AllIn(_, _)
AllIn(keys, d) ==
    IF Len(keys) = 0 THEN TRUE
    ELSE IF Head(keys) \notin DOMAIN d THEN FALSE
    ELSE AllIn(Tail(keys), d)
RECURSIVE AnyIn(_, _)
AnyIn(keys, d) ==
    IF Len(keys) = 0 THEN FALSE
    ELSE IF Head(keys) \in DOMAIN d THEN TRUE
    ELSE AnyIn(Tail(keys), d)
Mut_any_is_app_desc_valid(d) == AnyIn(RequiredKeys, d)
Mut_true_is_app_desc_valid(d) == TRUE
_is_app_desc_valid(d) == AllIn(RequiredKeys, d)

\* "not v" of a host or port argument: None and the empty string are falsy.
Falsy(v) == v = None \/ v = ""

\* _disc_set_host_and_port: <<host, port, s>>
\* (the mutant leaves out the s = "" of the branch for a port that is not given)
Mut_keep_tls_disc_set_host_and_port(host, port) ==
    LET s0 == IF _DEFAULT_SSL /\ port /= _DEFAULT_HTTP_PORT THEN "s" ELSE "" IN
    IF Falsy(host) /\ Falsy(port)
    THEN <<_DEFAULT_HOST,
           IF _DEFAULT_SSL THEN _DEFAULT_HTTPS_PORT ELSE _DEFAULT_HTTP_PORT, s0>>
    ELSE IF Falsy(port) THEN <<host, _DEFAULT_HTTP_PORT, s0>>
    ELSE IF Falsy(host) THEN <<_DEFAULT_HOST, port, s0>>
    ELSE <<host, port, s0>>
_disc_set_host_and_port(host, port) ==
    LET s0 == IF _DEFAULT_SSL /\ port /= _DEFAULT_HTTP_PORT THEN "s" ELSE "" IN
    IF Falsy(host) /\ Falsy(port)
    THEN <<_DEFAULT_HOST,
           IF _DEFAULT_SSL THEN _DEFAULT_HTTPS_PORT ELSE _DEFAULT_HTTP_PORT, s0>>
    ELSE IF Falsy(port) THEN <<host, _DEFAULT_HTTP_PORT, "">>
    ELSE IF Falsy(host) THEN <<_DEFAULT_HOST, port, s0>>
    ELSE <<host, port, s0>>

\* _open_setup: <<host, port>> from the current DiscoveryRecord fd
Mut_always_upgrade_open_setup(host, port, fd) ==
    IF _DEFAULT_SSL /\ fd.https_available
    THEN <<fd.api_domain, fd.https_port>>
    ELSE <<IF host = None THEN _DEFAULT_HOST ELSE host,
           IF port = None THEN _DEFAULT_HTTP_PORT ELSE port>>
_open_setup(host, port, fd) ==
    IF _DEFAULT_SSL /\ fd.https_available
    THEN <<IF host = None \/ _is_ipv4(host) THEN fd.api_domain ELSE host,
           IF port = None \/ port = _DEFAULT_HTTP_PORT THEN fd.https_port ELSE port>>
    ELSE <<IF host = None THEN _DEFAULT_HOST ELSE host,
           IF port = None THEN _DEFAULT_HTTP_PORT ELSE port>>

\* _check_api_version without the substitution of lines 233-234.
Mut_no_pin_check_api_version(ver, advertised) ==
    LET server_version == Split0(advertised)
        target == Slice1(_DEFAULT_API_VERSION)
        v1 == ver
        short == Slice1(v1)
    IN  IF StrLt(target, server_version) /\ short = server_version
        THEN [ver |-> v1, warn |-> "new", raised |-> FALSE]
        ELSE IF StrLt(short, target) /\ ~IntOk(short)
        THEN [ver |-> v1, warn |-> "", raised |-> TRUE]
        ELSE IF StrLt(short, target) /\ IntVal(short) > 0
        THEN [ver |-> v1, warn |-> "deprecated", raised |-> FALSE]
        ELSE IF StrLt(server_version, short)
        THEN [ver |-> _DEFAULT_API_VERSION, warn |-> "reset", raised |-> FALSE]
        ELSE IF ~IntOk(short)
        THEN [ver |-> v1, warn |-> "", raised |-> TRUE]
        ELSE IF IntVal(short) < 1
        THEN [ver |-> _DEFAULT_API_VERSION, warn |-> "reset", raised |-> FALSE]
        ELSE [ver |-> v1, warn |-> "", raised |-> FALSE]
\* _check_api_version with a third branch that warns and keeps the version.
Mut_keep_newer_check_api_version(ver, advertised) ==
    LET server_version == Split0(advertised)
        target == Slice1(_DEFAULT_API_VERSION)
        v1 == IF ver = Str_server THEN <<118>> \o server_version ELSE ver
        short == Slice1(v1)
    IN  IF StrLt(target, server_version) /\ short = server_version
        THEN [ver |-> v1, warn |-> "new", raised |-> FALSE]
        ELSE IF StrLt(short, target) /\ ~IntOk(short)
        THEN [ver |-> v1, warn |-> "", raised |-> TRUE]
        ELSE IF StrLt(short, target) /\ IntVal(short) > 0
        THEN [ver |-> v1, warn |-> "deprecated", raised |-> FALSE]
        ELSE IF StrLt(server_version, short)
        THEN [ver |-> v1, warn |-> "new", raised |-> FALSE]
        ELSE IF ~IntOk(short)
        THEN [ver |-> v1, warn |-> "", raised |-> TRUE]
        ELSE IF IntVal(short) < 1
        THEN [ver |-> _DEFAULT_API_VERSION, warn |-> "reset", raised |-> FALSE]
        ELSE [ver |-> v1, warn |-> "", raised |-> FALSE]
\* _check_api_version: [ver, warn, raised] from self.api_version and the
\* advertised api_version string.
_check_api_version(ver, advertised) ==
    LET server_version == Split0(advertised)
        target == Slice1(_DEFAULT_API_VERSION)
        v1 == IF ver = Str_server THEN <<118>> \o server_version ELSE ver
        short == Slice1(v1)
    IN  IF StrLt(target, server_version) /\ short = server_version
        THEN [ver |-> v1, warn |-> "new", raised |-> FALSE]
        ELSE IF StrLt(short, target) /\ ~IntOk(short)
        THEN [ver |-> v1, warn |-> "", raised |-> TRUE]
        ELSE IF StrLt(short, target) /\ IntVal(short) > 0
        THEN [ver |-> v1, warn |-> "deprecated", raised |-> FALSE]
        ELSE IF StrLt(server_version, short)
        THEN [ver |-> _DEFAULT_API_VERSION, warn |-> "reset", raised |-> FALSE]
        ELSE IF ~IntOk(short)
        THEN [ver |-> v1, warn |-> "", raised |-> TRUE]
        ELSE IF IntVal(short) < 1
        THEN [ver |-> _DEFAULT_API_VERSION, warn |-> "reset", raised |-> FALSE]
        ELSE [ver |-> v1, warn |-> "", raised |-> FALSE]

\* _readfile_app_token: <<app_token, track_id, app_desc>>; app_token 0 and
\* app_desc << >> stand for the None of a missing file.
Mut_fill_readfile_app_token(f) ==
    IF f = << >> THEN [app_token |-> 0, track_id |-> 0, app_desc |-> << >>]
    ELSE [app_token |-> f[1].app_token, track_id |-> f[1].track_id,
          app_desc |-> <<[k \in Range(RequiredKeys) |->
                            IF k \in DOMAIN f[1].desc THEN f[1].desc[k] ELSE 1]>>]
Mut_every_key_readfile_app_token(f) ==
    IF f = << >> THEN [app_token |-> 0, track_id |-> 0, app_desc |-> << >>]
    ELSE [app_token |-> f[1].app_token, track_id |-> f[1].track_id,
          app_desc |-> <<f[1].desc>>]
_readfile_app_token(f) ==
    IF f = << >> THEN [app_token |-> 0, track_id |-> 0, app_desc |-> << >>]
    ELSE [app_token |-> f[1].app_token, track_id |-> f[1].track_id,
          app_desc |-> <<[k \in Range(RequiredKeys) \cap DOMAIN f[1].desc |-> f[1].desc[k]]>>]

\* _writefile_app_token: the record json.dump leaves in the file.  The dict
\* {**app_desc, "app_token": ..., "track_id": ...} is kept as its three parts:
\* the two added keys override, and the reader looks up those two and the four
\* required keys only.
_writefile_app_token(app_token, track_id, desc) ==
    <<[app_token |-> app_token, track_id |-> track_id, desc |-> desc]>>

\* line 350: app_token is None or file_app_desc != app_desc
Mut_token_only_NeedsPairing(rd, desc) == rd.app_token = 0
Mut_never_reuse_NeedsPairing(rd, desc) == TRUE
NeedsPairing(rd, desc) == rd.app_token = 0 \/ rd.app_desc /= <<desc>>

\* line 414: not resp.get("success")
Mut_accept_AuthorizeRejected(success) == FALSE
AuthorizeRejected(success) == ~success

\* lines 367 and 380: the two statuses that raise AuthorizationError
Mut_denied_only_StatusIsFatal(status) == status = "denied"
Mut_timeout_only_StatusIsFatal(status) == status = "timeout"
Mut_unknown_too_StatusIsFatal(status) == status \in {"denied", "timeout", "unknown"}
StatusIsFatal(status) == status \in {"denied", "timeout"}

\* lines 374-376: the prompt is printed while out_msg_flag is unset
Mut_every_time_ShouldPrompt(out_msg_flag) == TRUE
ShouldPrompt(out_msg_flag) == ~out_msg_flag

\* line 200: the device identity check of discover
Mut_any_device_IsFreebox(d) == TRUE
IsFreebox(d) == d.device_name = _DEFAULT_DEVICE_NAME

\* lines 263-267: the live connection is the requested target
\* (is_ssl compared with "not s" instead of "not not s")
Mut_not_s_SameTarget(key, host, port, s) ==
    key.host = host /\ key.port = PortNum(port) /\ key.is_ssl = (s = "")
SameTarget(key, host, port, s) ==
    key.host = host /\ key.port = PortNum(port) /\ key.is_ssl = (s /= "")

\* lines 288-292: what sock.connect_ex((host, int(port))) does.  It returns 0
\* or an errno for the connect itself; a host name that does not resolve makes
\* it raise socket.gaierror, an OSError, before any connect.
ConnectOutcomes(host) ==
    {"ok", "refused"} \cup (IF _is_ipv4(host) THEN {} ELSE {"gaierror"})

\* line 146: close() has nothing to close
Mut_access_only_CloseIsNoop(acc, closed) == acc = << >>
CloseIsNoop(acc, closed) == acc = << >> \/ closed


\* ------------------------------------------------------- sessions, URLs
NoUrl == [s |-> "", host |-> "", port |-> "", abu |-> "", ver |-> << >>]
\* f"http{s}://{host}:{port}" and f"http{s}://{host}:{port}{abu}{ver}/"
Url(s, host, port, abu, ver) ==
    [s |-> s, host |-> host, port |-> port, abu |-> abu, ver |-> ver]

NewSession == [closed |-> FALSE, conns |-> << >>]
\* self._session is not None and not self._session.closed (lines 179-181,
\* 261, 279); the mutant takes every session for closed.
Mut_never_SessOpen(ss, i) == FALSE
SessOpen(ss, i) == i /= 0 /\ ~ss[i].closed
CloseSess(ss, i) == [ss EXCEPT ![i] = [closed |-> TRUE, conns |-> << >>]]
ConnKey(host, port, s) == [host |-> host, port |-> PortNum(port), is_ssl |-> (s = "s")]
AddKey(ss, i, key) ==
    IF key \in Range(ss[i].conns) THEN ss
    ELSE [ss EXCEPT ![i].conns = Append(@, key)]
OpenSessions(ss) == {i \in 1..Len(ss) : ~ss[i].closed}

\* Access(session, base_url, app_token, app_id, timeout)
Access(sess, base_url, app_token, app_id) ==
    <<[session |-> sess, base_url |-> base_url, app_token |-> app_token,
       app_id |-> app_id]>>

\* ------------------------------------------------------------- frames
ZeroCount ==
    [auth |-> 0, poll |-> 0, wait |-> 0, prompt |-> 0, read |-> 0, write |-> 0,
     sock |-> 0, sess |-> 0, get |-> 0, logout |-> 0, sclose |-> 0, built |-> 0,
     perm |-> 0]
NoRes == [kind |-> "none", exc |-> "", val |-> << >>, host |-> "", port |-> ""]
Returned(val) == [NoRes EXCEPT !.kind = "return", !.val = val]
Raised(exc) == [NoRes EXCEPT !.kind = "raise", !.exc = exc]
\* The call before this one: which, how it ended, and its resolved target.
NoPrev == [op |-> "none", pc |-> "idle", some |-> FALSE, tgt |-> <<"", "", "">>]
\* The client's state when a call starts: what the call is compared with.
Snapshot ==
    [file |-> file, access |-> access, session |-> session,
     live |-> SessOpen(sessions, session),
     fbx_desc |-> fbx_desc, fbx_url |-> fbx_url, api_version |-> api_version]
NoSnapshot ==
    [file |-> << >>, access |-> << >>, session |-> 0, live |-> FALSE,
     fbx_desc |-> << >>, fbx_url |-> NoUrl, api_version |-> << >>]
IdleFrame ==
    [pc |-> "idle", op |-> "none", args |-> <<None, None>>,
     host |-> None, port |-> None,          \* locals of open / _open_init
     dhost |-> None, dport |-> None, ds |-> "",   \* locals of discover
     ret |-> "top",        \* who awaits discover: the caller, or a pass of open
     cont |-> "none",      \* what follows the drain delay of _disc_close_to_return
     base_url |-> NoUrl, app_token |-> 0, track_id |-> 0,
     out_msg_flag |-> FALSE,
     resp |-> "none",      \* the answer to POST login/authorize/
     opened |-> FALSE,     \* open() has been called on this client
     seq |-> << >>,        \* the status answers of this pairing
     passes |-> << >>,     \* device_name each discover pass of this open returned
     fail |-> "",          \* how a discover pass of this open failed, if one did
     ans |-> "",           \* the last /api_version answer this call received
     n |-> ZeroCount,      \* what this call has done so far
     pre |-> NoSnapshot, prev |-> NoPrev, res |-> NoRes]

Finished(fr) == fr.pc \in {"idle", "done", "raised"}
PrevOf(fr) ==
    [op |-> fr.op, pc |-> fr.pc, some |-> fr.res.val /= << >>,
     tgt |-> IF fr.op = "discover" /\ fr.res.val /= << >>
             THEN _disc_set_host_and_port(fr.args[1], fr.args[2])
             ELSE <<"", "", "">>]
StartFrame(fr, op, h, p) ==
    [IdleFrame EXCEPT !.op = op, !.args = <<h, p>>, !.host = h, !.port = p,
                      !.dhost = h, !.dport = p, !.pre = Snapshot, !.prev = PrevOf(fr),
                      !.opened = fr.opened \/ op = "open"]
Done(fr, val) == [fr EXCEPT !.pc = "done", !.res = Returned(val)]
Raise(fr, exc) == [fr EXCEPT !.pc = "raised", !.res = Raised(exc)]
\* lines 512-522: the NotOpenError of _open_init names host and port, "None"
\* for a value that is falsy
NotOpen(fr) ==
    [fr EXCEPT !.pc = "raised",
               !.res = [NoRes EXCEPT !.kind = "raise", !.exc = "NotOpenError",
                          !.host = IF ~Falsy(fr.host) THEN fr.host ELSE _DEFAULT_UNKNOWN,
                          !.port = IF ~Falsy(fr.port) THEN fr.port ELSE _DEFAULT_UNKNOWN]]

Init ==
    /\ \E c \in Configs :
           /\ app_desc = c.desc
           /\ api_version = c.ver
           /\ file = c.file
           /\ box = c.box
           /\ scen = c.scen
    /\ fbx_desc = << >>
    /\ fbx_from = << >>
    /\ fbx_url = NoUrl
    /\ access = << >>
    /\ session = 0
    /\ sessions = << >>
    /\ issued = 0
    /\ ops = 0
    /\ frames = [t \in Tasks |-> IdleFrame]


\* --------------------------------------------------- the end of discovery
\* Variables a step of discover writes itself: fbx_desc, session, sessions.
\* What follows a return of discover writes the others.

\* _get_base_url reads the scheme from the first key of the session's pool.
BaseUrlError(ss) ==
    IF session = 0 THEN "AttributeError"
    ELSE IF Len(ss[session].conns) = 0 THEN "IndexError"
    ELSE ""
Mut_always_https_get_base_url(ss, host, port, abu, ver) ==
    Url("s", host, port, abu, ver)
_get_base_url(ss, host, port, abu, ver) ==
    Url(IF ss[session].conns[1].is_ssl THEN "s" ELSE "", host, port, abu, ver)

\* open() after _open_init's second discover returned a record (lines
\* 524-527, then _get_app_access up to its first await, lines 343-356 and
\* 389-393).  fd is self.fbx_desc, ss the sessions.
AfterDiscovery(t, fr, fd, ss) ==
    IF fd = << >>
    THEN /\ frames' = [frames EXCEPT ![t] = Raise(fr, "TypeError")]
         /\ UNCHANGED <<api_version, fbx_url, access, file, issued>>
    ELSE IF "api_version" \notin DOMAIN fd[1]    \* line 231
    THEN /\ frames' = [frames EXCEPT ![t] = Raise(fr, "KeyError")]
         /\ UNCHANGED <<api_version, fbx_url, access, file, issued>>
    ELSE
    LET chk == _check_api_version(api_version, fd[1].api_version)
        err == BaseUrlError(ss)
        base_url == _get_base_url(ss, fr.host, fr.port, fd[1].api_base_url, chk.ver)
        rd == _readfile_app_token(file)
        fr1 == [fr EXCEPT !.base_url = base_url, !.n.read = @ + 1]
    IN  /\ api_version' = chk.ver
        /\ UNCHANGED <<file, issued>>
        /\ IF chk.raised
           THEN /\ frames' = [frames EXCEPT ![t] = Raise(fr, "ValueError")]
                /\ UNCHANGED <<fbx_url, access>>
           ELSE IF err /= ""
           THEN /\ frames' = [frames EXCEPT ![t] = Raise(fr, err)]
                /\ UNCHANGED <<fbx_url, access>>
           ELSE /\ fbx_url' = _get_base_url(ss, fr.host, fr.port, "", << >>)
                /\ IF NeedsPairing(rd, app_desc)
                   THEN /\ frames' = [frames EXCEPT ![t] = [fr1 EXCEPT !.pc = "auth_post"]]
                        /\ UNCHANGED access
                   ELSE IF "app_id" \notin DOMAIN app_desc
                   THEN /\ frames' = [frames EXCEPT ![t] = Raise(fr1, "KeyError")]
                        /\ UNCHANGED access
                   ELSE /\ access' = Access(session, base_url, rd.app_token,
                                            app_desc["app_id"])
                        /\ frames' = [frames EXCEPT ![t] =
                               Done([fr1 EXCEPT !.app_token = rd.app_token,
                                                !.track_id = rd.track_id,
                                                !.n.built = @ + 1], << >>)]

\* lines 505 and 510: "if await self.discover(host, port) is None"
Mut_never_PassFailed(val) == FALSE
PassFailed(val) == val = << >>

\* discover() returns val (a record, or << >> for None) to whoever awaits it:
\* the caller, or _open_init (lines 504-511).
DiscReturn(t, fr, val, fd, ss) ==
    IF fr.ret = "top"
    THEN /\ frames' = [frames EXCEPT ![t] = Done(fr, val)]
         /\ UNCHANGED <<api_version, fbx_url, access, file, issued>>
    ELSE
    LET fr1 == [fr EXCEPT !.passes =
                    Append(@, IF val = << >> THEN ""
                              ELSE IF "device_name" \notin DOMAIN val[1] THEN "<no name>"
                              ELSE val[1].device_name)]
    IN
    IF PassFailed(val)
    THEN /\ frames' = [frames EXCEPT ![t] = NotOpen([fr1 EXCEPT !.fail = "not-found"])]
         /\ UNCHANGED <<api_version, fbx_url, access, file, issued>>
    ELSE IF fr.ret = "pass1"
    THEN IF fd = << >>
         THEN /\ frames' = [frames EXCEPT ![t] = Raise(fr1, "TypeError")]
              /\ UNCHANGED <<api_version, fbx_url, access, file, issued>>
         ELSE IF "https_available" \notin DOMAIN fd[1]    \* line 532
         THEN /\ frames' = [frames EXCEPT ![t] = Raise(fr1, "KeyError")]
              /\ UNCHANGED <<api_version, fbx_url, access, file, issued>>
         ELSE LET hp == _open_setup(fr.host, fr.port, fd[1]) IN
              /\ frames' = [frames EXCEPT ![t] =
                     [fr1 EXCEPT !.host = hp[1], !.port = hp[2], !.dhost = hp[1],
                                 !.dport = hp[2], !.ds = "", !.ret = "pass2",
                                 !.pc = "disc"]]
              /\ UNCHANGED <<api_version, fbx_url, access, file, issued>>
    ELSE AfterDiscovery(t, fr1, fd, ss)

\* discover() raises exc: _open_init turns HttpRequestError (and ValueError)
\* into NotOpenError, anything else reaches the caller.
DiscRaise(t, fr, exc) ==
    /\ frames' = [frames EXCEPT ![t] =
           IF fr.ret = "top" THEN Raise(fr, exc)
           ELSE IF exc \in {"HttpRequestError", "ValueError"}
           THEN NotOpen([fr EXCEPT !.fail = exc])
           ELSE Raise([fr EXCEPT !.fail = exc], exc)]
    /\ UNCHANGED <<api_version, fbx_url, access, file, issued>>

\* What follows _disc_close_to_return at its call site.
Mut_swallow_Continue(t, fr, cont, fd, ss) ==
    IF cont \in {"ret_none", "raise_http"} THEN DiscReturn(t, fr, << >>, fd, ss)
    ELSE /\ frames' = [frames EXCEPT ![t] = [fr EXCEPT !.pc = "disc"]]
         /\ UNCHANGED <<api_version, fbx_url, access, file, issued>>
Continue(t, fr, cont, fd, ss) ==
    IF cont = "ret_none" THEN DiscReturn(t, fr, << >>, fd, ss)
    ELSE IF cont = "raise_http" THEN DiscRaise(t, fr, "HttpRequestError")
    ELSE /\ frames' = [frames EXCEPT ![t] = [fr EXCEPT !.pc = "disc"]]
         /\ UNCHANGED <<api_version, fbx_url, access, file, issued>>

\* _disc_close_to_return (lines 274-283): clears the record, closes an open
\* session and then sleeps 0.25 s (pc disc_drain); with nothing to close it
\* returns at once.
CloseToReturn(t, fr, cont, ss) ==
    /\ fbx_desc' = << >>
    /\ fbx_from' = << >>
    /\ session' = session
    /\ IF SessOpen(ss, session)
       THEN /\ sessions' = CloseSess(ss, session)
            /\ frames' = [frames EXCEPT ![t] =
                   [fr EXCEPT !.pc = "disc_drain", !.cont = cont, !.n.sclose = @ + 1]]
            /\ UNCHANGED <<api_version, fbx_url, access, file, issued>>
       ELSE /\ sessions' = ss
            /\ Continue(t, fr, cont, << >>, ss)


\* ------------------------------------------------------------ actions
\* The caller awaits each call before the next one (spec section 5).
OpsBound == IF scen = "wide" THEN MaxOps ELSE MaxSeqOps
Args == IF scen = "wide" THEN CallArgs ELSE SeqArgs
CanStart(t) ==
    /\ ops < OpsBound
    /\ \A u \in Tasks : Finished(frames[u])

\* open(host, port), lines 96-112, up to the first discover.
StartOpen(t, h, p) ==
    /\ CanStart(t)
    /\ ops' = ops + 1
    /\ LET fr == StartFrame(frames[t], "open", h, p) IN
       frames' = [frames EXCEPT ![t] =
           IF ~_is_app_desc_valid(app_desc)
           THEN Raise(fr, "InvalidTokenError")
           ELSE [fr EXCEPT !.pc = "disc", !.ret = "pass1"]]
    /\ UNCHANGED <<app_desc, box, scen, api_version, fbx_desc, fbx_from, fbx_url, access, session,
                   sessions, file, issued>>

\* discover(host, port) called by the caller.
StartDiscover(t, h, p) ==
    /\ CanStart(t)
    /\ ops' = ops + 1
    /\ frames' = [frames EXCEPT ![t] =
           [StartFrame(frames[t], "discover", h, p) EXCEPT !.pc = "disc", !.ret = "top"]]
    /\ UNCHANGED <<app_desc, box, scen, api_version, fbx_desc, fbx_from, fbx_url, access, session,
                   sessions, file, issued>>

\* discover, lines 164-184 and _disc_check_session, _disc_connect: from its
\* entry to the await of the /api_version request, or to its return.
Disc(t) ==
    LET fr == frames[t]
        hps == _disc_set_host_and_port(fr.dhost, fr.dport)
        fr1 == [fr EXCEPT !.dhost = hps[1], !.dport = hps[2], !.ds = hps[3]]
    IN
    /\ fr.pc = "disc"
    /\ UNCHANGED <<app_desc, box, scen, ops>>
    /\ IF _is_ipv6(fr.dhost)
       THEN CloseToReturn(t, fr, "ret_none", sessions)
       ELSE IF fbx_desc /= << >> /\ SessOpen(sessions, session)
       THEN \* _disc_check_session, lines 261-270
            IF Len(sessions[session].conns) = 0
            THEN /\ DiscRaise(t, fr, "IndexError")
                 /\ UNCHANGED <<fbx_desc, fbx_from, session, sessions>>
            ELSE IF SameTarget(sessions[session].conns[1], hps[1], hps[2], hps[3])
            THEN /\ DiscReturn(t, fr, fbx_desc, fbx_desc, sessions)
                 /\ UNCHANGED <<fbx_desc, fbx_from, session, sessions>>
            ELSE CloseToReturn(t, fr1, "rediscover", sessions)
       ELSE IF ~SessOpen(sessions, session)
       THEN \* _disc_connect, lines 288-308
            \E result \in ConnectOutcomes(hps[1]) :
                LET fr2 == [fr1 EXCEPT !.n.sock = @ + 1] IN
                IF result = "gaierror"
                THEN /\ DiscRaise(t, fr2, "gaierror")
                     /\ UNCHANGED <<fbx_desc, fbx_from, session, sessions>>
                ELSE IF result /= "ok"
                THEN CloseToReturn(t, fr2, "ret_none", sessions)
                ELSE /\ sessions' = Append(sessions, NewSession)
                     /\ session' = Len(sessions) + 1
                     /\ frames' = [frames EXCEPT ![t] =
                            [fr2 EXCEPT !.pc = "disc_get", !.n.sess = @ + 1]]
                     /\ UNCHANGED <<api_version, fbx_desc, fbx_from, fbx_url, access, file, issued>>
       ELSE /\ frames' = [frames EXCEPT ![t] = [fr1 EXCEPT !.pc = "disc_get"]]
            /\ UNCHANGED <<api_version, fbx_desc, fbx_from, fbx_url, access, session, sessions,
                           file, issued>>

\* discover, lines 186-203: the /api_version request is answered.
DiscGet(t) ==
    LET fr == frames[t]
        fr1 == [fr EXCEPT !.n.get = @ + 1]
        key == ConnKey(fr.dhost, fr.dport, fr.ds)
    IN
    /\ fr.pc = "disc_get"
    /\ UNCHANGED <<app_desc, box, scen, ops>>
    /\ IF ~SessOpen(sessions, session)
       THEN /\ DiscRaise(t, fr1, "RuntimeError")
            /\ UNCHANGED <<fbx_desc, fbx_from, session, sessions>>
       ELSE
       \/ /\ fr.ds = "s"      \* ssl.SSLCertVerificationError
          /\ CloseToReturn(t, [fr1 EXCEPT !.ans = "tls"], "raise_http", sessions)
       \/ \* an answer that is not application/json
          CloseToReturn(t, [fr1 EXCEPT !.ans = "not-json"], "ret_none",
                        AddKey(sessions, session, key))
       \/ \E d \in JsonAnswers(box) :
              IF "device_name" \notin DOMAIN d
              THEN \* line 198 has stored the answer, line 200 raises KeyError
                   /\ fbx_desc' = <<d>>
                   /\ fbx_from' = <<key>>
                   /\ session' = session
                   /\ sessions' = AddKey(sessions, session, key)
                   /\ DiscRaise(t, [fr1 EXCEPT !.ans = "nameless"], "KeyError")
              ELSE IF IsFreebox(d)
              THEN /\ fbx_desc' = <<d>>
                   /\ fbx_from' = <<key>>
                   /\ session' = session
                   /\ sessions' = AddKey(sessions, session, key)
                   /\ DiscReturn(t, [fr1 EXCEPT !.ans = "freebox"], <<d>>, <<d>>, sessions')
              ELSE CloseToReturn(t, [fr1 EXCEPT !.ans = "foreign"], "ret_none",
                                 AddKey(sessions, session, key))

\* _disc_close_to_return, line 281: the drain delay is over.
DiscDrain(t) ==
    LET fr == frames[t] IN
    /\ fr.pc = "disc_drain"
    /\ UNCHANGED <<app_desc, box, scen, ops, fbx_desc, fbx_from, session, sessions>>
    /\ Continue(t, [fr EXCEPT !.cont = "none"], fr.cont, fbx_desc, sessions)

\* _get_app_token, lines 408-421: POST login/authorize/ is answered.
AuthPost(t) ==
    LET fr == frames[t] IN
    /\ fr.pc = "auth_post"
    /\ UNCHANGED <<app_desc, box, scen, ops, api_version, fbx_desc, fbx_from, fbx_url, access, session,
                   sessions, file>>
    /\ \E success \in BOOLEAN :
           LET fr1 == [fr EXCEPT !.n.auth = @ + 1,
                                 !.resp = IF success THEN "success" ELSE "failure"]
           IN
           IF AuthorizeRejected(success)
           THEN /\ frames' = [frames EXCEPT ![t] = Raise(fr1, "AuthorizationError")]
                /\ UNCHANGED issued
           ELSE /\ issued' = issued + 1
                /\ frames' = [frames EXCEPT ![t] =
                       [fr1 EXCEPT !.pc = "poll", !.app_token = issued + 2,
                                   !.track_id = issued + 2]]

\* _get_app_access, lines 361-393: GET login/authorize/{track_id} is answered.
Poll(t) ==
    LET fr == frames[t] IN
    /\ fr.pc = "poll"
    /\ UNCHANGED <<app_desc, box, scen, ops, api_version, fbx_desc, fbx_from, fbx_url, session, sessions,
                   issued>>
    /\ \E status \in Statuses :
       LET fr1 == [fr EXCEPT !.n.poll = @ + 1, !.seq = Append(@, status)] IN
       /\ status \in NonTerminal => Len(fr.seq) < MaxPolls
       /\ IF StatusIsFatal(status)
          THEN /\ frames' = [frames EXCEPT ![t] = Raise(fr1, "AuthorizationError")]
               /\ UNCHANGED <<access, file>>
          ELSE IF status = "pending"
          THEN /\ frames' = [frames EXCEPT ![t] =
                      [fr1 EXCEPT !.pc = "wait", !.n.wait = @ + 1,
                                  !.out_msg_flag = TRUE,
                                  !.n.prompt = IF ShouldPrompt(fr.out_msg_flag)
                                               THEN @ + 1 ELSE @]]
               /\ UNCHANGED <<access, file>>
          ELSE IF status = "granted"
          THEN /\ file' = _writefile_app_token(fr.app_token, fr.track_id, app_desc)
               /\ IF "app_id" \notin DOMAIN app_desc
                  THEN /\ frames' = [frames EXCEPT ![t] =
                              Raise([fr1 EXCEPT !.n.write = @ + 1], "KeyError")]
                       /\ UNCHANGED access
                  ELSE /\ access' = Access(session, fr.base_url, fr.app_token,
                                           app_desc["app_id"])
                       /\ frames' = [frames EXCEPT ![t] =
                              Done([fr1 EXCEPT !.n.write = @ + 1, !.n.built = @ + 1],
                                   << >>)]
          ELSE /\ frames' = [frames EXCEPT ![t] = fr1]
               /\ UNCHANGED <<access, file>>

\* _get_app_access, line 377: the one-second sleep is over.
Wait(t) ==
    /\ frames[t].pc = "wait"
    /\ frames' = [frames EXCEPT ![t].pc = "poll"]
    /\ UNCHANGED <<app_desc, box, scen, ops, api_version, fbx_desc, fbx_from, fbx_url, access, session,
                   sessions, file, issued>>

\* close(), lines 146-150, up to the await of the logout request.
StartClose(t) ==
    /\ CanStart(t)
    /\ ops' = ops + 1
    /\ LET fr == StartFrame(frames[t], "close", None, None) IN
       frames' = [frames EXCEPT ![t] =
           IF access /= << >> /\ session = 0 THEN Raise(fr, "AttributeError")
           ELSE IF CloseIsNoop(access, session /= 0 /\ sessions[session].closed)
           THEN Done(fr, << >>)
           ELSE [fr EXCEPT !.pc = "close_logout"]]
    /\ UNCHANGED <<app_desc, box, scen, api_version, fbx_desc, fbx_from, fbx_url, access, session,
                   sessions, file, issued>>

\* Access.post("login/logout") on the sender's own session: a closed session
\* refuses the request, the appliance may answer without success.
LogoutOutcomes(acc, ss) ==
    IF acc = << >> THEN {"AttributeError"}
    ELSE IF ss[acc[1].session].closed THEN {"RuntimeError"}
    ELSE {"ok", "HttpRequestError"}

\* close() without line 151.
Mut_no_close_CloseLogout(t) ==
    LET fr == frames[t]
        fr1 == [fr EXCEPT !.n.logout = @ + 1]
    IN
    /\ fr.pc = "close_logout"
    /\ UNCHANGED <<app_desc, box, scen, ops, api_version, fbx_desc, fbx_from, fbx_url, access, session,
                   file, issued>>
    /\ \E out \in LogoutOutcomes(access, sessions) :
           IF out /= "ok"
           THEN /\ frames' = [frames EXCEPT ![t] = Raise(fr1, out)]
                /\ UNCHANGED sessions
           ELSE IF session = 0
           THEN /\ frames' = [frames EXCEPT ![t] = Raise(fr1, "AttributeError")]
                /\ UNCHANGED sessions
           ELSE /\ sessions' = sessions
                /\ frames' = [frames EXCEPT ![t] =
                       [fr1 EXCEPT !.pc = "close_drain", !.n.sclose = @ + 1]]

\* close(), lines 150-152: the logout request is answered, the session closed.
CloseLogout(t) ==
    LET fr == frames[t]
        fr1 == [fr EXCEPT !.n.logout = @ + 1]
    IN
    /\ fr.pc = "close_logout"
    /\ UNCHANGED <<app_desc, box, scen, ops, api_version, fbx_desc, fbx_from, fbx_url, access, session,
                   file, issued>>
    /\ \E out \in LogoutOutcomes(access, sessions) :
           IF out /= "ok"
           THEN /\ frames' = [frames EXCEPT ![t] = Raise(fr1, out)]
                /\ UNCHANGED sessions
           ELSE IF session = 0
           THEN /\ frames' = [frames EXCEPT ![t] = Raise(fr1, "AttributeError")]
                /\ UNCHANGED sessions
           ELSE /\ sessions' = CloseSess(sessions, session)
                /\ frames' = [frames EXCEPT ![t] =
                       [fr1 EXCEPT !.pc = "close_drain", !.n.sclose = @ + 1]]

\* close(), line 152: the drain delay is over.
CloseDrain(t) ==
    /\ frames[t].pc = "close_drain"
    /\ frames' = [frames EXCEPT ![t] = Done(frames[t], << >>)]
    /\ UNCHANGED <<app_desc, box, scen, ops, api_version, fbx_desc, fbx_from, fbx_url, access, session,
                   sessions, file, issued>>

\* line 220: if self._access
HasSender(acc, ss, i) == acc /= << >>

\* get_permissions(), lines 220-223, up to the await of the sender's accessor.
StartGetPermissions(t) ==
    /\ CanStart(t)
    /\ ops' = ops + 1
    /\ LET fr == StartFrame(frames[t], "get_permissions", None, None) IN
       frames' = [frames EXCEPT ![t] =
           IF HasSender(access, sessions, session)
           THEN [fr EXCEPT !.pc = "perm_get"]
           ELSE Done(fr, << >>)]
    /\ UNCHANGED <<app_desc, box, scen, api_version, fbx_desc, fbx_from, fbx_url, access, session,
                   sessions, file, issued>>

\* What Access.get_permissions() returns: the sender's permission snapshot.
SenderPermissions(acc) == <<"permissions">>

\* get_permissions(), line 221: the sender has answered.
PermGet(t) ==
    LET fr == frames[t] IN
    /\ fr.pc = "perm_get"
    /\ frames' = [frames EXCEPT ![t] =
           Done([fr EXCEPT !.n.perm = @ + 1], SenderPermissions(access))]
    /\ UNCHANGED <<app_desc, box, scen, ops, api_version, fbx_desc, fbx_from, fbx_url, access, session,
                   sessions, file, issued>>

\* Calls are issued and awaited one at a time, by task t1.
Next ==
    \/ \E a \in Args : StartOpen("t1", a[1], a[2])
    \/ \E a \in Args : StartDiscover("t1", a[1], a[2])
    \/ StartClose("t1")
    \/ StartGetPermissions("t1")
    \/ PermGet("t1")
    \/ Disc("t1")
    \/ DiscGet("t1")
    \/ DiscDrain("t1")
    \/ AuthPost("t1")
    \/ Poll("t1")
    \/ Wait("t1")
    \/ CloseLogout("t1")
    \/ CloseDrain("t1")

Spec == Init /\ [][Next]_vars


\* ======================================================== properties
\* The call the caller is in, or has just been in.
Call == frames["t1"]
Last(q) == q[Len(q)]
Req == Range(RequiredKeys)
\* Every descriptor over the five keys with values 1 and 2.
AllDescs == UNION {[S -> Values] : S \in SUBSET AllKeys}
\* Client state a call can change, compared with the state it started in.
ClientUnchanged(fr) ==
    /\ file = fr.pre.file
    /\ access = fr.pre.access
    /\ session = fr.pre.session
    /\ fbx_desc = fr.pre.fbx_desc
    /\ fbx_url = fr.pre.fbx_url
    /\ api_version = fr.pre.api_version
\* The stored record holds an app_token and the four descriptor keys, with the
\* values of descriptor d, which has no other key.
StoredMatches(f, d) ==
    /\ f /= << >>
    /\ Req \subseteq DOMAIN f[1].desc
    /\ DOMAIN d = Req
    /\ \A k \in Req : f[1].desc[k] = d[k]
\* The stored record is missing, or differs from d in one of the four keys.
StoredDiffers(f, d) ==
    \/ f = << >>
    \/ \E k \in Req : \/ k \notin DOMAIN f[1].desc
                      \/ k \notin DOMAIN d
                      \/ f[1].desc[k] /= d[k]
InPairing(fr) == fr.pc \in {"auth_post", "poll", "wait"}

\* C1 - Credential reuse: an open() that finds a token file holding an
\* app_token and the four descriptor keys with the values of the client's
\* descriptor (other keys of the file ignored) sends no login/authorize
\* request and no status poll, leaves the file alone, and once it has read
\* the file it completes with a sender built from the stored app_token.
C1_CredentialReuse ==
    LET fr == Call IN
    (fr.op = "open" /\ StoredMatches(fr.pre.file, app_desc)) =>
        /\ fr.n.auth = 0 /\ fr.n.poll = 0 /\ fr.n.write = 0
        /\ ~InPairing(fr)
        /\ file = fr.pre.file
        /\ fr.n.read > 0 => fr.pc = "done"
        /\ fr.pc = "done" =>
              /\ fr.n.built = 1
              /\ access = Access(session, fr.base_url, fr.pre.file[1].app_token,
                                 app_desc["app_id"])
C1_Witness ==
    LET fr == Call IN
    /\ fr.op = "open" /\ fr.pc = "done"
    /\ StoredMatches(fr.pre.file, app_desc)
    /\ "extra" \in DOMAIN fr.pre.file[1].desc

\* C2 - Mismatch forces re-pairing: an open() that finds no token file, or
\* one whose descriptor differs from the client's in one of the four keys,
\* submits login/authorize as soon as it has read the file; a sender is built
\* only after granted and only from the newly issued app_token, never from
\* the stored one; once granted the file holds the issued app_token and
\* track_id and the client's descriptor.
C2_MismatchRepairs ==
    LET fr == Call IN
    (fr.op = "open" /\ StoredDiffers(fr.pre.file, app_desc)) =>
        /\ fr.n.read > 0 => (fr.pc = "auth_post" \/ fr.n.auth = 1)
        /\ fr.n.built > 0 =>
              /\ fr.seq /= << >> /\ Last(fr.seq) = "granted"
              /\ access /= << >> /\ access[1].app_token = fr.app_token
              /\ fr.pre.file /= << >> => access[1].app_token /= fr.pre.file[1].app_token
        /\ (fr.seq /= << >> /\ Last(fr.seq) = "granted") =>
              /\ fr.n.write = 1
              /\ fr.resp = "success" /\ fr.app_token = issued + 1
              /\ file = <<[app_token |-> fr.app_token, track_id |-> fr.track_id,
                           desc |-> app_desc]>>
              /\ file /= fr.pre.file
C2_Witness ==
    LET fr == Call IN
    /\ fr.op = "open" /\ fr.pc = "done"
    /\ fr.pre.file /= << >>
    /\ StoredDiffers(fr.pre.file, app_desc)
    /\ fr.pre.file[1].desc["app_version"] /= app_desc["app_version"]

\* C3 - n pending answers, then granted: while the answers are all pending
\* the loop has prompted once (never, before the first), waited once per
\* answer and written nothing; when granted follows n pending answers it has
\* prompted min(n, 1) times, waited n times, polled n + 1 times, written the
\* credential once and returned the sender.
AllPending(q) == \A i \in 1..Len(q) : q[i] = "pending"
Min1(n) == IF n >= 1 THEN 1 ELSE 0
C3_PendingThenGranted ==
    LET fr == Call
        n == Len(fr.seq) - 1
    IN
    /\ (fr.op = "open" /\ fr.resp = "success" /\ AllPending(fr.seq)) =>
          /\ fr.n.prompt = Min1(Len(fr.seq))
          /\ fr.n.wait = Len(fr.seq) /\ fr.n.poll = Len(fr.seq)
          /\ fr.n.write = 0 /\ fr.n.built = 0
          /\ fr.pc \in {"poll", "wait"}
    /\ (fr.op = "open" /\ fr.seq /= << >> /\ Last(fr.seq) = "granted"
          /\ AllPending(SubSeq(fr.seq, 1, n))) =>
          /\ fr.n.prompt = Min1(n)
          /\ fr.n.wait = n
          /\ fr.n.poll = n + 1
          /\ fr.n.write = 1 /\ fr.n.built = 1
          /\ fr.pc = "done"
          /\ access /= << >> /\ access[1].app_token = fr.app_token
C3_Witness ==
    LET fr == Call IN
    /\ fr.op = "open" /\ fr.pc = "done"
    /\ fr.seq = <<"pending", "pending", "granted">>
    /\ fr.n.prompt = 1 /\ fr.n.wait = 2

\* C4 - Denied and timeout are fatal and persist nothing: when the first
\* answer that is neither pending nor unknown is denied or timeout, open()
\* has raised AuthorizationError at that poll, polled no further, and left
\* the token file and _access as they were when it was called.
FirstTerminal(q) ==
    IF \E i \in 1..Len(q) : q[i] \notin NonTerminal
    THEN CHOOSE i \in 1..Len(q) :
            q[i] \notin NonTerminal /\ \A j \in 1..(i - 1) : q[j] \in NonTerminal
    ELSE 0
C4_DeniedTimeoutFatal ==
    LET fr == Call
        i == FirstTerminal(fr.seq)
    IN
    (fr.op = "open" /\ i > 0 /\ fr.seq[i] \in {"denied", "timeout"}) =>
        /\ i = Len(fr.seq)
        /\ fr.n.poll = i
        /\ fr.pc = "raised" /\ fr.res.exc = "AuthorizationError"
        /\ fr.n.write = 0 /\ file = fr.pre.file
        /\ fr.n.built = 0 /\ access = fr.pre.access
C4_Witness ==
    LET fr == Call IN
    /\ fr.op = "open" /\ fr.pc = "raised"
    /\ fr.seq = <<"pending", "unknown", "timeout">>
       \/ fr.seq = <<"unknown", "pending", "denied">>
    /\ fr.pre.file /= << >>

\* C5 - Discovery precedes pairing and session: within an open(), a
\* login/authorize request, a status poll, a read or write of the token file
\* or the construction of the sender happens only after both discover passes
\* of that open() returned a record with the expected device_name.
C5_DiscoveryFirst ==
    LET fr == Call IN
    (fr.op = "open"
       /\ (InPairing(fr) \/ fr.n.auth > 0 \/ fr.n.poll > 0 \/ fr.n.read > 0
             \/ fr.n.write > 0 \/ fr.n.built > 0 \/ file /= fr.pre.file
             \/ access /= fr.pre.access)) =>
        fr.passes = <<_DEFAULT_DEVICE_NAME, _DEFAULT_DEVICE_NAME>>
C5_Witness ==
    LET fr == Call IN
    /\ fr.op = "open" /\ fr.pc = "done"
    /\ fr.n.auth = 1 /\ fr.n.write = 1 /\ fr.n.built = 1
    /\ fr.n.get = 2

\* C6 - Invalid descriptor: when the client's descriptor lacks one of the
\* four required keys, open() raises the invalid-descriptor error having
\* probed nothing, connected nothing, requested nothing and touched no file,
\* and _session, _access, fbx_desc and api_version are as before the call.
C6_InvalidDescriptor ==
    LET fr == Call IN
    (fr.op = "open" /\ \E k \in Req : k \notin DOMAIN app_desc) =>
        /\ fr.pc = "raised" /\ fr.res.exc = "InvalidTokenError"
        /\ fr.n = ZeroCount
        /\ fr.passes = << >>
        /\ ClientUnchanged(fr)
C6_Witness ==
    LET fr == Call IN
    /\ fr.op = "open" /\ fr.pc = "raised" /\ fr.res.exc = "InvalidTokenError"
    /\ "app_id" \notin DOMAIN app_desc
    /\ fr.pre.fbx_desc /= << >> /\ SessOpen(sessions, session)

\* C7 - Descriptor validation: _is_app_desc_valid is true exactly of the
\* descriptors that hold all four required keys, whatever the values and the
\* other keys; open() rejects the client's descriptor exactly when it is not.
C7_DescriptorValidation ==
    /\ ops = 0 =>
          \A d \in AllDescs :
              /\ _is_app_desc_valid(d) <=> (Req \subseteq DOMAIN d)
              /\ _is_app_desc_valid(d)
                    <=> _is_app_desc_valid([k \in DOMAIN d \cap Req |-> 1])
    /\ Call.op = "open" =>
          ((Call.pc = "raised" /\ Call.res.exc = "InvalidTokenError")
              <=> ~(Req \subseteq DOMAIN app_desc))
C7_Witness ==
    /\ Call.op = "open" /\ Call.pc = "disc"
    /\ DOMAIN app_desc = AllKeys

\* C8 - Authorization rejected: when the answer to the login/authorize
\* submission does not carry success = true, open() has raised
\* AuthorizationError, polled nothing, written nothing and built no sender.
C8_AuthorizationRejected ==
    LET fr == Call IN
    (fr.op = "open" /\ fr.resp = "failure") =>
        /\ fr.pc = "raised" /\ fr.res.exc = "AuthorizationError"
        /\ fr.n.auth = 1
        /\ fr.n.poll = 0 /\ fr.seq = << >>
        /\ fr.n.write = 0 /\ file = fr.pre.file
        /\ fr.n.built = 0 /\ access = fr.pre.access
        /\ fr.app_token = 0 /\ fr.track_id = 0
C8_Witness ==
    LET fr == Call IN
    /\ fr.op = "open" /\ fr.resp = "failure" /\ fr.pc = "raised"
    /\ fr.pre.file /= << >>

C10_DiscoveryIdempotence ==
    LET fr == Call IN
    (fr.op = "discover"
       /\ fr.prev.op = "discover" /\ fr.prev.pc = "done" /\ fr.prev.some
       /\ fr.prev.tgt = _disc_set_host_and_port(fr.args[1], fr.args[2])) =>
        /\ fr.pc \in {"disc", "done"}
        /\ fr.n = ZeroCount
        /\ ClientUnchanged(fr)
        /\ fr.pre.fbx_desc /= << >>
        /\ fr.pc = "done" => (fr.res.kind = "return" /\ fr.res.val = fr.pre.fbx_desc)
C10_Witness ==
    LET fr == Call IN
    /\ fr.op = "discover" /\ fr.pc = "done"
    /\ fr.prev.op = "discover" /\ fr.prev.pc = "done" /\ fr.prev.some
    /\ fr.prev.tgt = _disc_set_host_and_port(fr.args[1], fr.args[2])
    /\ fr.res.val = <<box>>

\* C11 - Fallback ladder: _disc_set_host_and_port maps a host and a port, each
\* given or omitted (None or empty), to: both omitted, the default host, the
\* default secure port and TLS; port omitted, the host, the default plain port
\* and no TLS; otherwise the port as given with TLS exactly when it is not
\* "80", and the host as given or the default host.  A discover() that reaches
\* its /api_version request addresses the target the ladder gives.
HostInputs == {None, "", HostV4, HostName, HostV6}
PortInputs == {None, "", "80", "443", "8443"}
Omitted(v) == v = None \/ v = ""
Ladder(host, port) ==
    CASE Omitted(host) /\ Omitted(port) -> <<"mafreebox.freebox.fr", "443", "s">>
      [] ~Omitted(host) /\ Omitted(port) -> <<host, "80", "">>
      [] Omitted(host) /\ ~Omitted(port) ->
            <<"mafreebox.freebox.fr", port, IF port /= "80" THEN "s" ELSE "">>
      [] OTHER -> <<host, port, IF port /= "80" THEN "s" ELSE "">>
C11_FallbackLadder ==
    LET fr == Call IN
    /\ ops = 0 =>
          \A h \in HostInputs, p \in PortInputs :
              _disc_set_host_and_port(h, p) = Ladder(h, p)
    /\ (fr.op = "discover" /\ fr.pc = "disc_get") =>
          <<fr.dhost, fr.dport, fr.ds>> = Ladder(fr.args[1], fr.args[2])
    /\ (fr.op = "open" /\ fr.pc = "disc_get") =>
          <<fr.dhost, fr.dport, fr.ds>> =
              IF fr.ret = "pass1" THEN Ladder(fr.args[1], fr.args[2])
              ELSE Ladder(fr.host, fr.port)
C11_Witness ==
    LET fr == Call IN
    /\ fr.op = "discover" /\ fr.pc = "disc_get"
    /\ fr.args = <<HostV4, None>>
    /\ <<fr.dhost, fr.dport, fr.ds>> = <<HostV4, "80", "">>

\* C12 - Cannot-reach error: when a discover pass of open() fails, by
\* returning None or by raising, open() raises NotOpenError naming the host
\* and port of that pass ("None" for one the caller did not give), and no
\* pairing step runs.  Stated for every failure of a pass it is violated: a
\* host name that does not resolve makes connect_ex raise socket.gaierror,
\* which _open_init does not catch.
Sentinel(v) == IF Omitted(v) THEN "None" ELSE v
NoPairingStep(fr) ==
    /\ fr.n.auth = 0 /\ fr.n.poll = 0 /\ fr.n.wait = 0
    /\ fr.n.read = 0 /\ fr.n.write = 0 /\ fr.n.built = 0
    /\ file = fr.pre.file /\ access = fr.pre.access
NamesLastProbe(fr) ==
    <<fr.res.host, fr.res.port>> =
        IF fr.ret = "pass1" THEN <<Sentinel(fr.args[1]), Sentinel(fr.args[2])>>
        ELSE <<fr.dhost, fr.dport>>
C12_CannotReach ==
    LET fr == Call IN
    (fr.op = "open" /\ fr.fail /= "") =>
        /\ fr.pc = "raised" /\ fr.res.exc = "NotOpenError"
        /\ NamesLastProbe(fr)
        /\ NoPairingStep(fr)
\* The same for the failures discover reports itself: a None result (IPv6
\* host, refused connection, foreign or non-JSON answer) and the
\* HttpRequestError of a failed certificate verification.
C12_ReportedFailures ==
    LET fr == Call IN
    (fr.op = "open" /\ fr.fail \in {"not-found", "HttpRequestError"}) =>
        /\ fr.pc = "raised" /\ fr.res.exc = "NotOpenError"
        /\ NamesLastProbe(fr)
        /\ NoPairingStep(fr)
C12_Witness ==
    LET fr == Call IN
    /\ fr.op = "open" /\ fr.pc = "raised" /\ fr.res.exc = "NotOpenError"
    /\ fr.fail = "HttpRequestError" /\ fr.ret = "pass2"
    /\ fr.args = <<HostV4, None>>
    /\ <<fr.res.host, fr.res.port>> = <<ApiDomain, "8443">>

\* C13 - Credential round-trip: for every app_token, track_id and descriptor
\* that _is_app_desc_valid accepts, _readfile_app_token of what
\* _writefile_app_token wrote returns that app_token, that track_id and the
\* four required keys of the descriptor with their values; the descriptor
\* read equals the one written exactly when it has no other key.  The file
\* an open() wrote reads back as the token and track_id it was issued.
TokenInputs == {1, 2, 3}
Restrict(d, S) == [k \in DOMAIN d \cap S |-> d[k]]
RoundTrip(tok, tid, d) == _readfile_app_token(_writefile_app_token(tok, tid, d))
C13_RoundTrip ==
    LET fr == Call IN
    /\ ops = 0 =>
          \A tok \in TokenInputs, tid \in TokenInputs :
              \A d \in {x \in AllDescs : _is_app_desc_valid(x)} :
                  LET rd == RoundTrip(tok, tid, d) IN
                  /\ rd.app_token = tok /\ rd.track_id = tid
                  /\ rd.app_desc = <<Restrict(d, Req)>>
                  /\ rd.app_desc = <<d>> <=> DOMAIN d = Req
    /\ (fr.op = "open" /\ fr.n.write > 0) =>
          LET rd == _readfile_app_token(file) IN
          /\ rd.app_token = fr.app_token /\ rd.track_id = fr.track_id
          /\ rd.app_desc = <<Restrict(app_desc, Req)>>
C13_Witness ==
    LET fr == Call IN
    /\ fr.op = "open" /\ fr.pc = "done" /\ fr.n.write = 1
    /\ "extra" \in DOMAIN app_desc
    /\ _readfile_app_token(file).app_desc /= <<app_desc>>
\* The round trip as an identity on every accepted descriptor.
C13_RoundTripExact ==
    LET fr == Call IN
    /\ ops = 0 =>
          \A tok \in TokenInputs, tid \in TokenInputs :
              \A d \in {x \in AllDescs : _is_app_desc_valid(x)} :
                  RoundTrip(tok, tid, d) =
                      [app_token |-> tok, track_id |-> tid, app_desc |-> <<d>>]
    /\ (fr.op = "open" /\ fr.n.write > 0) =>
          _readfile_app_token(file) =
              [app_token |-> fr.app_token, track_id |-> fr.track_id,
               app_desc |-> <<app_desc>>]

\* C14 - Single session: at every moment of a sequence of open(), discover()
\* and close() calls at most one ClientSession the client created is open,
\* and it is the client's _session; a call that created a session while the
\* client held one found that one closed first, by the call itself when it
\* was open on another target.
C14_SingleSession ==
    LET fr == Call IN
    /\ Cardinality(OpenSessions(sessions)) <= 1
    /\ OpenSessions(sessions) \subseteq {session}
    /\ (fr.n.sess > 0 /\ fr.pre.session /= 0) =>
          /\ session /= fr.pre.session
          /\ sessions[fr.pre.session].closed
    /\ fr.n.sess <= fr.n.sclose + 1
C14_Witness ==
    LET fr == Call IN
    /\ fr.op = "discover" /\ fr.pc = "done" /\ fr.res.val /= << >>
    /\ fr.prev.op = "discover" /\ fr.prev.some
    /\ fr.prev.tgt /= _disc_set_host_and_port(fr.args[1], fr.args[2])
    /\ fr.n.sclose = 1 /\ fr.n.sess = 1
    /\ Len(sessions) = 2 /\ sessions[1].closed /\ ~sessions[2].closed

\* C15 - API version reset: for a requested version "v" + N and an advertised
\* major version S, when N is greater than S as a string, or int(N) is less
\* than 1, _check_api_version leaves api_version at "v6".  Stated so it is
\* violated: the deprecated branch (N less than "6" as a string, int(N) > 0)
\* is tested first and keeps the requested version, as for "v5" against an
\* appliance that advertises "4.0".
\* N: "0" "1" "3" "5" "6" "7" "8" "9" "10" "11" "-1";  S: "4" "6" "8" "10".
ShortInputs ==
    {<<48>>, <<49>>, <<51>>, <<53>>, <<54>>, <<55>>, <<56>>, <<57>>,
     <<49, 48>>, <<49, 49>>, <<54, 48>>, <<45, 49>>}
MajorInputs == {<<52>>, <<54>>, <<56>>, <<49, 48>>}
V(N) == <<118>> \o N
Advertised(S) == S \o <<46, 48>>
MustReset(N, S) == StrLt(S, N) \/ IntVal(N) < 1
IsDeprecated(N) == StrLt(N, <<54>>) /\ IntVal(N) > 0
\* The version an open() asked for, and the major version it was answered.
Requested(fr) ==
    IF fr.pre.api_version = Str_server THEN V(Split0(box.api_version))
    ELSE fr.pre.api_version
C15_VersionReset ==
    LET fr == Call IN
    /\ ops = 0 =>
          \A N \in ShortInputs, S \in MajorInputs :
              MustReset(N, S) =>
                  _check_api_version(V(N), Advertised(S)).ver = <<118, 54>>
    /\ (fr.op = "open" /\ fr.n.read > 0
          /\ MustReset(Slice1(Requested(fr)), Split0(box.api_version))) =>
          api_version = <<118, 54>>
\* What does hold: the reset happens in these cases unless the requested
\* version is a deprecated one, which is kept.
C15_ResetUnlessDeprecated ==
    LET fr == Call
        N0 == Slice1(Requested(fr))
    IN
    /\ ops = 0 =>
          \A N \in ShortInputs, S \in MajorInputs :
              LET r == _check_api_version(V(N), Advertised(S)) IN
              /\ ~r.raised
              /\ (MustReset(N, S) /\ ~IsDeprecated(N)) =>
                    (r.ver = <<118, 54>> /\ r.warn = "reset")
              /\ IsDeprecated(N) => (r.ver = V(N) /\ r.warn = "deprecated")
    /\ (fr.op = "open" /\ fr.n.read > 0) =>
          /\ (MustReset(N0, Split0(box.api_version)) /\ ~IsDeprecated(N0)) =>
                api_version = <<118, 54>>
          /\ IsDeprecated(N0) => api_version = Requested(fr)
C15_Witness ==
    LET fr == Call IN
    /\ fr.op = "open" /\ fr.pc = "done"
    /\ fr.pre.api_version = <<118, 53>> /\ box.api_version = <<52, 46, 48>>
    /\ api_version = <<118, 53>>

\* C16 - Permissions without a session: get_permissions() returns None
\* whenever the client has no open authenticated session (no sender, or a
\* closed _session), asks the sender only while a session is open, and leaves
\* the client's state as it was.  Stated so it is violated: close() keeps
\* _access, and get_permissions() tests nothing else.
NoOpenSession == access = << >> \/ ~SessOpen(sessions, session)
C16_PermissionsNoSession ==
    LET fr == Call IN
    fr.op = "get_permissions" =>
        /\ NoOpenSession =>
              /\ fr.pc = "done" /\ fr.res.kind = "return" /\ fr.res.val = << >>
              /\ fr.n.perm = 0
        /\ ClientUnchanged(fr)
\* What does hold: None exactly while _access was never set, the sender's
\* answer otherwise, whatever the state of the session.
C16_PermissionsBySender ==
    LET fr == Call IN
    fr.op = "get_permissions" =>
        /\ access = << >> =>
              /\ fr.pc = "done" /\ fr.res.kind = "return" /\ fr.res.val = << >>
              /\ fr.n.perm = 0
        /\ access /= << >> =>
              /\ fr.pc \in {"perm_get", "done"}
              /\ fr.pc = "done" => (fr.n.perm = 1 /\ fr.res.val /= << >>)
        /\ ClientUnchanged(fr)
        /\ fr.n = [ZeroCount EXCEPT !.perm = fr.n.perm]
C16_Witness ==
    LET fr == Call IN
    /\ fr.op = "get_permissions" /\ fr.pc = "done"
    /\ fr.prev.op = "close" /\ fr.prev.pc = "done"
    /\ access /= << >> /\ sessions[session].closed
    /\ fr.n.perm = 1 /\ fr.res.val /= << >>

\* C17 - Foreign service is not-found: a discover() whose /api_version
\* request is answered by something that is not JSON, or by JSON with another
\* device_name, returns None without raising, with the session closed and
\* fbx_desc empty; and a record that discover() returns carries the expected
\* device_name, is the cached fbx_desc, and comes with an open session.
\* Stated so it is violated: a JSON answer without device_name is stored
\* before line 200 raises KeyError, and the next discover() of that target
\* returns it from the cache.
HasName(val) ==
    /\ "device_name" \in DOMAIN val[1]
    /\ val[1].device_name = "Freebox Server"
ForeignIsNotFound(fr) ==
    (fr.op = "discover" /\ fr.ans \in {"not-json", "foreign"}) =>
        /\ fr.pc \in {"disc_drain", "done"}
        /\ fbx_desc = << >>
        /\ ~SessOpen(sessions, session)
        /\ fr.pc = "done" => (fr.res.kind = "return" /\ fr.res.val = << >>)
C17_ForeignNotFound ==
    LET fr == Call IN
    /\ ForeignIsNotFound(fr)
    /\ (fr.op = "discover" /\ fr.pc = "done" /\ fr.res.val /= << >>) =>
          /\ HasName(fr.res.val)
          /\ fr.res.val = fbx_desc
          /\ SessOpen(sessions, session)
\* What does hold: the same, with the expected device_name only for a record
\* this call received itself; a record returned without a request is the one
\* the cache held.
C17_ForeignNotFoundFresh ==
    LET fr == Call IN
    /\ ForeignIsNotFound(fr)
    /\ (fr.op = "discover" /\ fr.pc = "done" /\ fr.res.val /= << >>) =>
          /\ fr.res.val = fbx_desc
          /\ SessOpen(sessions, session)
          /\ fr.n.get > 0 => (HasName(fr.res.val) /\ fr.ans = "freebox")
          /\ fr.n.get = 0 => fr.res.val = fr.pre.fbx_desc
C17_Witness ==
    LET fr == Call IN
    /\ fr.op = "discover" /\ fr.pc = "done" /\ fr.ans = "foreign"
    /\ fr.res.val = << >> /\ fbx_desc = << >>
    /\ fr.pre.fbx_desc /= << >> /\ fr.n.sclose = 2
    /\ sessions[session].closed

\* C18 - IPv6 rejection: a discover() called with an IPv6 host returns None
\* having opened no socket, created no session and sent no request; the
\* client's _session is the object it was, closed if it was open.
C18_IPv6Rejected ==
    LET fr == Call IN
    (fr.op = "discover" /\ fr.args[1] = HostV6) =>
        /\ fr.pc \in {"disc", "disc_drain", "done"}
        /\ fr.n.sock = 0 /\ fr.n.sess = 0 /\ fr.n.get = 0
        /\ session = fr.pre.session
        /\ fr.pc = "done" =>
              /\ fr.res.kind = "return" /\ fr.res.val = << >>
              /\ ~SessOpen(sessions, session)
C18_Witness ==
    LET fr == Call IN
    /\ fr.op = "discover" /\ fr.args[1] = HostV6 /\ fr.pc = "done"
    /\ fr.pre.fbx_desc /= << >> /\ fr.n.sclose = 1
    /\ fr.res.val = << >>

\* C19 - No leaked session after close: whatever open(), discover() and
\* close() calls came before, a close() that has returned leaves no
\* ClientSession of the client open.  Stated so it is violated: close() does
\* nothing while _access is None, which is the case after a discover() on
\* its own and after an open() that failed in the pairing.
C19_NoLeakAfterClose ==
    LET fr == Call IN
    (fr.op = "close" /\ fr.pc = "done") => OpenSessions(sessions) = {}
\* What does hold: a close() that returned has closed the session when a
\* sender existed, and has done nothing at all when none did.
C19_CloseNeedsSender ==
    LET fr == Call IN
    (fr.op = "close" /\ fr.pc = "done") =>
        /\ fr.pre.access /= << >> => OpenSessions(sessions) = {}
        /\ fr.pre.access = << >> => (fr.n = ZeroCount /\ ClientUnchanged(fr))
C19_Witness ==
    LET fr == Call IN
    /\ fr.op = "close" /\ fr.pc = "done"
    /\ fr.prev.op = "open" /\ fr.prev.pc = "raised"
    /\ access = << >> /\ SessOpen(sessions, session)

\* C20 - Sender bound to the live session: whenever _access is set and the
\* client's _session is open, _access was built with that session, so that
\* close() never sends its logout request through a sender whose session is
\* closed.  Stated so it is violated: a discover() of another target replaces
\* _session and leaves _access bound to the one it closed.
SenderSession == access[1].session
C20_SenderBound ==
    LET fr == Call IN
    /\ (access /= << >> /\ SessOpen(sessions, session)) => SenderSession = session
    /\ (fr.op = "close" /\ fr.pc = "close_logout") => ~sessions[SenderSession].closed
\* What does hold: the sender is bound to the session of the open() that
\* built it, which is the client's _session until a later discover()
\* replaces that one, and is closed from then on.
C20_SenderBoundAtOpen ==
    LET fr == Call IN
    /\ access /= << >> =>
          /\ SenderSession \in 1..Len(sessions)
          /\ SenderSession = session \/ sessions[SenderSession].closed
    /\ (fr.op = "open" /\ fr.pc = "done") =>
          (SenderSession = session /\ SessOpen(sessions, session))
    /\ (fr.op = "close" /\ fr.pc = "close_logout" /\ sessions[SenderSession].closed) =>
          (SenderSession /= session /\ SessOpen(sessions, session))
C20_Witness ==
    LET fr == Call IN
    /\ fr.op = "close" /\ fr.pc = "raised" /\ fr.n.logout = 1
    /\ fr.prev.op = "discover" /\ fr.prev.some
    /\ access /= << >> /\ SenderSession /= session
    /\ sessions[SenderSession].closed /\ SessOpen(sessions, session)

\* C21 - Polling only while pending: within one pairing a status poll is
\* followed by another only when it was answered pending.  Stated so it is
\* violated: the loop runs while status is not granted, raises on denied and
\* timeout, and so polls again after unknown as well.
PollsAhead(fr) == fr.op = "open" /\ fr.pc \in {"poll", "wait"}
C21_PollOnlyAfterPending ==
    LET fr == Call IN
    /\ \A i \in 1..(Len(fr.seq) - 1) : fr.seq[i] = "pending"
    /\ (PollsAhead(fr) /\ fr.seq /= << >>) => Last(fr.seq) = "pending"
\* What does hold: a poll is followed by another exactly when its answer was
\* none of granted, denied and timeout.
C21_PollOnlyAfterNonTerminal ==
    LET fr == Call IN
    /\ \A i \in 1..(Len(fr.seq) - 1) : fr.seq[i] \notin {"granted", "denied", "timeout"}
    /\ (PollsAhead(fr) /\ fr.seq /= << >>) =>
          Last(fr.seq) \notin {"granted", "denied", "timeout"}
    /\ (fr.seq /= << >> /\ Last(fr.seq) \in {"granted", "denied", "timeout"}) =>
          ~PollsAhead(fr)
    /\ fr.n.poll = Len(fr.seq)
C21_Witness ==
    LET fr == Call IN
    /\ fr.op = "open" /\ fr.pc = "done"
    /\ fr.seq = <<"unknown", "unknown", "granted">>
    /\ fr.n.poll = 3

\* C22 - Unknown status is non-terminal: after a status poll answered
\* unknown (which stands for every value the loop does not name) the pairing
\* has not raised, has prompted and waited only for the pending answers
\* before it, has written nothing, and its next step is another poll of the
\* same track_id; as long as every answer is unknown, however many there
\* are, open() is still polling.
NumPending(q) == Cardinality({i \in 1..Len(q) : q[i] = "pending"})
AllUnknown(q) == \A i \in 1..Len(q) : q[i] = "unknown"
C22_UnknownNonTerminal ==
    LET fr == Call IN
    /\ (fr.op = "open" /\ fr.seq /= << >> /\ Last(fr.seq) = "unknown") =>
          /\ fr.pc = "poll"
          /\ fr.n.prompt = Min1(NumPending(fr.seq))
          /\ fr.n.wait = NumPending(fr.seq)
          /\ fr.n.write = 0 /\ file = fr.pre.file
          /\ fr.n.built = 0 /\ access = fr.pre.access
          /\ fr.n.auth = 1 /\ fr.track_id = issued + 1
    /\ (fr.op = "open" /\ fr.resp = "success" /\ AllUnknown(fr.seq)) =>
          /\ fr.pc = "poll"
          /\ fr.n.poll = Len(fr.seq)
          /\ fr.n.prompt = 0 /\ fr.n.wait = 0
C22_Witness ==
    LET fr == Call IN
    /\ fr.op = "open" /\ fr.pc = "poll"
    /\ fr.seq = <<"unknown", "unknown">>
    /\ fr.pre.file /= << >>

\* C23 - No busy-wait in the poll loop: between two consecutive status polls
\* of a pairing lies exactly one one-second sleep, whatever the answer to the
\* earlier one.  Stated so it is violated: asyncio.sleep(1) is in the pending
\* branch only, so the poll after an unknown answer follows at once.
C23_OneWaitBetweenPolls ==
    LET fr == Call IN
    (fr.op = "open" /\ fr.n.poll >= 1) =>
        /\ fr.n.wait \in {fr.n.poll - 1, fr.n.poll}
        /\ fr.pc = "poll" => fr.n.wait = fr.n.poll
\* What does hold: one sleep after each pending answer, none after another.
C23_WaitAfterPendingOnly ==
    LET fr == Call IN
    fr.op = "open" =>
        /\ fr.n.wait = NumPending(fr.seq)
        /\ fr.pc = "wait" => (fr.seq /= << >> /\ Last(fr.seq) = "pending")
        /\ (fr.pc = "poll" /\ fr.seq /= << >> /\ Last(fr.seq) = "unknown") =>
              fr.n.wait < fr.n.poll
C23_Witness ==
    LET fr == Call IN
    /\ fr.op = "open" /\ fr.pc = "poll"
    /\ fr.seq = <<"pending", "unknown">>
    /\ fr.n.poll = 2 /\ fr.n.wait = 1

\* Every request returns and every sleep ends: the steps that answer the
\* login/authorize submission and the status poll, and the step that ends the
\* one-second sleep, are taken when they stay enabled.  The appliance gives
\* at most MaxPolls answers that are not granted, denied or timeout.
LiveSpec ==
    /\ Init /\ [][Next]_vars
    /\ WF_vars(AuthPost("t1"))
    /\ WF_vars(Poll("t1"))
    /\ WF_vars(Wait("t1"))

\* C24 - Pairing terminates on a terminal status: a pairing that is polling
\* eventually leaves the loop, returning on granted and raising
\* AuthorizationError on denied and timeout; it has left the loop exactly when
\* an answer was one of the three, and that answer is the last one.
IsTerminal(status) == status \in {"granted", "denied", "timeout"}
InPollLoop == Call.op = "open" /\ Call.pc \in {"poll", "wait"}
LoopLeft == Call.op = "open" /\ Call.n.poll > 0 /\ Call.pc \in {"done", "raised"}
ExitAtFirstTerminal ==
    LET fr == Call IN
    /\ LoopLeft =>
          /\ IsTerminal(Last(fr.seq))
          /\ \A i \in 1..(Len(fr.seq) - 1) : ~IsTerminal(fr.seq[i])
          /\ Last(fr.seq) = "granted" => fr.pc = "done"
          /\ Last(fr.seq) \in {"denied", "timeout"} =>
                (fr.pc = "raised" /\ fr.res.exc = "AuthorizationError")
    /\ InPollLoop => \A i \in 1..Len(fr.seq) : ~IsTerminal(fr.seq[i])
C24_PairingTerminates ==
    /\ []ExitAtFirstTerminal
    /\ InPollLoop ~> LoopLeft
C24_Witness ==
    LET fr == Call IN
    /\ fr.op = "open" /\ fr.pc = "raised"
    /\ fr.seq = <<"unknown", "pending", "timeout">>

\* C25 - Discovery failure is retried once: an open() that raises for a
\* failed discover pass has made a second probe first.  Stated so it is
\* violated: _open_init raises as soon as the first discover returns None or
\* raises, and calls discover a second time only after the first returned a
\* record.
C25_RetriedOnce ==
    LET fr == Call IN
    (fr.op = "open" /\ fr.fail /= "") => fr.ret = "pass2"
\* What does hold: a failure of the first pass ends open() with that one
\* probe made; the second pass runs exactly when the first returned a
\* record, and a failure there ends open() as well.
C25_NoRetry ==
    LET fr == Call IN
    /\ (fr.op = "open" /\ (fr.fail /= "" \/ "" \in Range(fr.passes))) =>
          /\ fr.pc = "raised"
          /\ "" \in Range(fr.passes) =>
                (fr.fail = "not-found" /\ fr.res.exc = "NotOpenError"
                   /\ Last(fr.passes) = "")
          /\ fr.ret = "pass1" =>
                (fr.passes \in {<< >>, <<"">>} /\ fr.n.sock <= 1 /\ fr.n.get <= 1)
    /\ (fr.op = "open" /\ fr.ret = "pass2") =>
          (fr.passes /= << >> /\ fr.passes[1] = "Freebox Server")
C25_Witness ==
    LET fr == Call IN
    /\ fr.op = "open" /\ fr.pc = "raised" /\ fr.res.exc = "NotOpenError"
    /\ fr.ret = "pass1" /\ fr.passes = <<"">>
    /\ fr.ans = "foreign" /\ fr.n.get = 1

\* C26 - Secure upgrade in the second pass: whatever (host, port) the caller
\* gave, the second probe of open() targets the record's api_domain and
\* https_port when the first-pass record has https_available, and the caller's
\* host and port (default host, port "80" for omitted ones) when it has not.
\* Stated so it is violated: a caller's host name and a caller's port other
\* than "80" are kept when https_available.
SecondTarget(host, port, fd) ==
    IF fd.https_available
    THEN <<fd.api_domain, fd.https_port>>
    ELSE <<IF host = None THEN _DEFAULT_HOST ELSE host,
           IF port = None THEN "80" ELSE port>>
\* The target the code computes: the record's domain replaces an omitted host
\* and an IPv4 literal only, the record's port an omitted port and "80" only.
SecondTargetKept(host, port, fd) ==
    IF fd.https_available
    THEN <<IF host = None \/ host = HostV4 THEN fd.api_domain ELSE host,
           IF port \in {None, "80"} THEN fd.https_port ELSE port>>
    ELSE SecondTarget(host, port, fd)
InSecondPass ==
    LET fr == Call IN
    fr.op = "open" /\ fr.ret = "pass2" /\ fr.pc \in {"disc", "disc_get"}
C26_SecureUpgrade ==
    LET fr == Call IN
    /\ ops = 0 =>
          \A a \in CallArgs, fd \in FbxDescs :
              _open_setup(a[1], a[2], fd) = SecondTarget(a[1], a[2], fd)
    /\ InSecondPass => <<fr.host, fr.port>> = SecondTarget(fr.args[1], fr.args[2], box)
C26_UpgradeOfOmittedAndLan ==
    LET fr == Call IN
    /\ ops = 0 =>
          \A a \in CallArgs, fd \in FbxDescs :
              _open_setup(a[1], a[2], fd) = SecondTargetKept(a[1], a[2], fd)
    /\ InSecondPass =>
          /\ <<fr.host, fr.port>> = SecondTargetKept(fr.args[1], fr.args[2], box)
          /\ fr.pc = "disc_get" => <<fr.dhost, fr.dport>> = <<fr.host, fr.port>>
C26_Witness ==
    LET fr == Call IN
    /\ fr.op = "open" /\ fr.ret = "pass2" /\ fr.pc = "disc_get"
    /\ box.https_available
    /\ fr.args = <<HostV4, "443">>
    /\ <<fr.dhost, fr.dport>> = <<ApiDomain, "443">>

\* C27 - Pairing is one-time for every accepted descriptor: an open() that
\* starts from a token file written by a granted pairing of this client (an
\* app_token the appliance issued, the client's descriptor) submits no
\* login/authorize request.  Stated so it is violated: for a descriptor with
\* a key beyond the four, _readfile_app_token returns four keys and the
\* comparison with self.app_desc fails at every open().
PairedBefore(fr) ==
    /\ fr.op = "open"
    /\ fr.pre.file /= << >>
    /\ fr.pre.file[1].app_token > 1
    /\ fr.pre.file[1].desc = app_desc
C27_PairingOnce ==
    LET fr == Call IN
    PairedBefore(fr) => (fr.n.auth = 0 /\ fr.n.poll = 0)
\* What does hold: no request after a pairing with a descriptor of exactly the
\* four keys, a new login/authorize request at every open() otherwise.
C27_PairingOnceFourKeys ==
    LET fr == Call IN
    PairedBefore(fr) =>
        IF DOMAIN app_desc = Req
        THEN fr.n.auth = 0 /\ fr.n.poll = 0 /\ file = fr.pre.file
        ELSE fr.n.read > 0 => (fr.pc = "auth_post" \/ fr.n.auth = 1)
C27_Witness ==
    LET fr == Call IN
    /\ PairedBefore(fr) /\ fr.pc = "done"
    /\ "extra" \in DOMAIN app_desc
    /\ fr.n.auth = 1 /\ Last(fr.seq) = "granted"
    /\ file[1].app_token = fr.pre.file[1].app_token + 1

\* C28 - Record cleared on teardown: in every state where the client's
\* session is closed, fbx_desc is None.  Stated so it is violated: close()
\* closes the session and leaves fbx_desc as it was.
SessionClosed == session /= 0 /\ sessions[session].closed
C28_ClearedOnTeardown ==
    SessionClosed => fbx_desc = << >>
\* What does hold: _disc_close_to_return clears the record before it closes
\* the session, so a closed session with a record still set is one that
\* close() closed, which needs a sender; and a discover pass that ended
\* without a record, other than by an exception the code does not handle,
\* left no record.
C28_ClearedByDiscover ==
    LET fr == Call IN
    /\ (SessionClosed /\ fbx_desc /= << >>) => access /= << >>
    /\ (fr.op \in {"open", "discover"} /\ fr.pc \in {"done", "raised"}
          /\ (fr.fail = "not-found" \/ (fr.op = "discover" /\ fr.res.val = << >>
                                           /\ fr.res.kind = "return"))) =>
          fbx_desc = << >>
C28_Witness ==
    LET fr == Call IN
    /\ fr.op = "close" /\ fr.pc = "done" /\ fr.n.sclose = 1
    /\ SessionClosed /\ fbx_desc = <<box>>

\* C29 - Version negotiation never blocks the session: for every requested
\* api_version string and every advertised version _check_api_version
\* returns without raising, and open() goes on to the credential step.
\* Stated so it is violated: int() of a requested version that is not a
\* number raises ValueError, outside the try block of _open_init.
VersionInputs ==
    {V(N) : N \in ShortInputs} \cup {Str_server, <<118>>, <<118, 49, 120>>, <<118, 120>>}
SecondPassReturned(fr) ==
    fr.op = "open" /\ Len(fr.passes) = 2 /\ fr.passes[2] = "Freebox Server"
C29_NeverBlocks ==
    LET fr == Call IN
    /\ ops = 0 =>
          \A v \in VersionInputs, S \in MajorInputs :
              ~_check_api_version(v, Advertised(S)).raised
    /\ SecondPassReturned(fr) =>
          ~(fr.pc = "raised" /\ fr.res.exc = "ValueError")
\* What does hold: the check raises exactly for a requested version that
\* int() rejects and that is not the advertised one and not above it as a
\* string, or is below the baseline as a string; open() then ends with
\* ValueError before the token file is read, and in every other case the
\* check returns.
Rejected(v, S) ==
    LET N == Slice1(IF v = Str_server THEN V(S) ELSE v) IN
    /\ ~IntOk(N)
    /\ ~(StrLt(<<54>>, S) /\ N = S)
    /\ StrLt(N, <<54>>) \/ ~StrLt(S, N)
C29_BlocksOnlyNonNumeric ==
    LET fr == Call IN
    /\ ops = 0 =>
          \A v \in VersionInputs, S \in MajorInputs :
              _check_api_version(v, Advertised(S)).raised <=> Rejected(v, S)
    /\ SecondPassReturned(fr) =>
          IF Rejected(fr.pre.api_version, Split0(box.api_version))
          THEN /\ fr.pc = "raised" /\ fr.res.exc = "ValueError"
               /\ fr.n.read = 0 /\ fr.n.auth = 0
               /\ access = fr.pre.access /\ file = fr.pre.file
          ELSE /\ ~(fr.pc = "raised" /\ fr.res.exc = "ValueError")
               /\ fr.n.read = 1
C29_Witness ==
    LET fr == Call IN
    /\ SecondPassReturned(fr)
    /\ fr.pre.api_version = <<118>>
    /\ fr.pc = "raised" /\ fr.res.exc = "ValueError"

\* C30 - Newer-than-advertised only warns: for a requested version vN and an
\* advertised major S with N numerically greater than S, _check_api_version
\* warns and leaves api_version equal to vN.  Stated so it is violated: the
\* branch for a version the appliance does not support resets api_version to
\* the baseline.
Newer(N, S) == IntOk(N) /\ IntVal(N) > IntVal(S)
C30_NewerOnlyWarns ==
    LET fr == Call
        N0 == Slice1(Requested(fr))
    IN
    /\ ops = 0 =>
          \A N \in ShortInputs, S \in MajorInputs :
              Newer(N, S) =>
                  LET r == _check_api_version(V(N), Advertised(S)) IN
                  ~r.raised /\ r.warn /= "" /\ r.ver = V(N)
    /\ (fr.op = "open" /\ fr.n.read > 0 /\ Newer(N0, Split0(box.api_version))) =>
          api_version = Requested(fr)
\* What does hold: the comparisons are those of strings.  A newer version
\* that is above the advertised one as a string and not below "6" as a string
\* is reset to the baseline with the not-supported warning; one below "6" as a
\* string ("10" against "8") is kept with the deprecated warning; any other
\* ("60" against "8") is kept without a warning.  The new-version warning
\* is given only for the advertised version itself.
NewerOutcome(N, S) ==
    IF StrLt(N, <<54>>) THEN [ver |-> V(N), warn |-> "deprecated", raised |-> FALSE]
    ELSE IF StrLt(S, N) THEN [ver |-> <<118, 54>>, warn |-> "reset", raised |-> FALSE]
    ELSE [ver |-> V(N), warn |-> "", raised |-> FALSE]
C30_NewerResets ==
    LET fr == Call
        N0 == Slice1(Requested(fr))
        S0 == Split0(box.api_version)
    IN
    /\ ops = 0 =>
          \A N \in ShortInputs, S \in MajorInputs :
              LET r == _check_api_version(V(N), Advertised(S)) IN
              /\ Newer(N, S) => r = NewerOutcome(N, S)
              /\ r.warn = "new" => N = S
    /\ (fr.op = "open" /\ fr.n.read > 0 /\ Newer(N0, S0)) =>
          api_version = NewerOutcome(N0, S0).ver
C30_Witness ==
    LET fr == Call IN
    /\ fr.op = "open" /\ fr.pc = "done"
    /\ fr.pre.api_version = <<118, 57>> /\ box.api_version = <<56, 46, 48>>
    /\ api_version = <<118, 54>>

\* C31 - Supported versions are kept: for an advertised major S >= 1 and a
\* requested vN with 1 <= N <= S as numbers, _check_api_version leaves
\* api_version equal to vN, and the api_version after the check is above S
\* only if it is the one the caller asked for.  Stated so it is violated: the
\* comparisons are those of strings, so "9" is above "10", and the reset puts
\* the baseline in place whatever the appliance advertises.
Supported(N, S) == IntOk(N) /\ 1 <= IntVal(N) /\ IntVal(N) <= IntVal(S)
C31_SupportedKept ==
    LET fr == Call
        N0 == Slice1(Requested(fr))
        S0 == Split0(box.api_version)
    IN
    /\ ops = 0 =>
          \A N \in ShortInputs, S \in MajorInputs :
              LET r == _check_api_version(V(N), Advertised(S)) IN
              /\ Supported(N, S) => r.ver = V(N)
              /\ (~r.raised /\ IntVal(Slice1(r.ver)) > IntVal(S)) => r.ver = V(N)
    /\ (fr.op = "open" /\ fr.n.read > 0) =>
          /\ Supported(N0, S0) => api_version = Requested(fr)
          /\ IntVal(Slice1(api_version)) > IntVal(S0) => api_version = Requested(fr)
\* What does hold: a supported version is kept when it is below "6" as a
\* string or not above S as a string, and is replaced by the baseline
\* otherwise; the api_version after the check is the requested one or the
\* baseline.
C31_SupportedKeptAsStrings ==
    LET fr == Call
        N0 == Slice1(Requested(fr))
        S0 == Split0(box.api_version)
    IN
    /\ ops = 0 =>
          \A N \in ShortInputs, S \in MajorInputs :
              LET r == _check_api_version(V(N), Advertised(S)) IN
              /\ Supported(N, S) =>
                    r.ver = IF StrLt(N, <<54>>) \/ ~StrLt(S, N) THEN V(N) ELSE <<118, 54>>
              /\ ~r.raised => r.ver \in {V(N), <<118, 54>>}
    /\ (fr.op = "open" /\ fr.n.read > 0) =>
          /\ Supported(N0, S0) =>
                api_version = IF StrLt(N0, <<54>>) \/ ~StrLt(S0, N0)
                              THEN Requested(fr) ELSE <<118, 54>>
          /\ api_version \in {Requested(fr), <<118, 54>>}
C31_Witness ==
    LET fr == Call IN
    /\ fr.op = "open" /\ fr.pc = "done"
    /\ fr.pre.api_version = <<118, 57>> /\ box.api_version = <<49, 48, 46, 48>>
    /\ api_version = <<118, 54>>

\* C32 - Pin to the appliance's version: for a client created with
\* api_version "server" and every advertised major S >= 1, api_version after
\* _check_api_version is "v" followed by S; it is not reset to the baseline.
PinMajors == MajorInputs \cup {<<49>>, <<53>>, <<55>>, <<54, 48>>, <<49, 50>>}
C32_PinToServer ==
    LET fr == Call IN
    /\ ops = 0 =>
          \A S \in PinMajors :
              LET r == _check_api_version(Str_server, Advertised(S)) IN
              ~r.raised /\ r.ver = V(S) /\ r.warn /= "reset"
    /\ (fr.op = "open" /\ fr.pre.api_version = Str_server /\ fr.n.read > 0) =>
          /\ api_version = V(Split0(box.api_version))
          /\ fr.base_url.ver = api_version
C32_Witness ==
    LET fr == Call IN
    /\ fr.op = "open" /\ fr.pc = "done"
    /\ fr.pre.api_version = Str_server /\ box.api_version = <<52, 46, 48>>
    /\ api_version = <<118, 52>>

\* C33 - Base URL uses the negotiated values: the base URL that open() hands
\* to the login/authorize request, the status polls and the sender is
\* http(s)://host:port + api_base_url + api_version + "/", with the host and
\* port of the second discover pass, the api_base_url of the current record,
\* the api_version left by _check_api_version, and "https" exactly when the
\* connection of the live session uses TLS.
LiveKeys == IF SessOpen(sessions, session) THEN Range(sessions[session].conns) ELSE {}
C33_BaseUrlNegotiated ==
    LET fr == Call IN
    (fr.op = "open" /\ fr.n.read > 0) =>
        /\ fr.ret = "pass2" /\ <<fr.host, fr.port>> = <<fr.dhost, fr.dport>>
        /\ fbx_desc /= << >>
        /\ fr.base_url.host = fr.host /\ fr.base_url.port = fr.port
        /\ fr.base_url.abu = fbx_desc[1].api_base_url
        /\ fr.base_url.ver = api_version
        /\ api_version = _check_api_version(fr.pre.api_version, box.api_version).ver
        /\ LiveKeys = {ConnKey(fr.host, fr.port, fr.base_url.s)}
        /\ fr.n.built > 0 => (access /= << >> /\ access[1].base_url = fr.base_url)
C33_Witness ==
    LET fr == Call IN
    /\ fr.op = "open" /\ fr.pc = "done" /\ fr.n.built = 1
    /\ fr.args = <<HostV4, None>> /\ box.https_available
    /\ fr.pre.api_version = <<118, 57>>
    /\ access[1].base_url = Url("s", ApiDomain, "8443", "/api/", <<118, 54>>)

\* C34 - Partial stored record: a token file that lacks some of the four
\* descriptor keys is read without error as the descriptor keys it holds;
\* what is read equals no descriptor _is_app_desc_valid accepts; and open()
\* pairs anew: it neither reuses the stored app_token nor fails for the file.
PartialDescs == {d \in AllDescs : ~(Req \subseteq DOMAIN d)}
IsPartial(f) == f /= << >> /\ ~(Req \subseteq DOMAIN f[1].desc)
C34_PartialRecord ==
    LET fr == Call IN
    /\ ops = 0 =>
          \A d \in PartialDescs :
              LET rd == _readfile_app_token(_writefile_app_token(1, 1, d)) IN
              /\ rd.app_token = 1 /\ rd.track_id = 1
              /\ rd.app_desc = <<Restrict(d, Req)>>
              /\ \A x \in AllDescs :
                    _is_app_desc_valid(x) =>
                        (rd.app_desc /= <<x>> /\ NeedsPairing(rd, x))
    /\ (fr.op = "open" /\ IsPartial(fr.pre.file) /\ fr.n.read > 0) =>
          /\ fr.pc = "auth_post" \/ fr.n.auth = 1
          /\ fr.pc = "raised" => (fr.res.exc = "AuthorizationError" /\ fr.n.auth = 1)
          /\ fr.n.built > 0 =>
                /\ Last(fr.seq) = "granted"
                /\ access[1].app_token = fr.app_token
                /\ access[1].app_token /= fr.pre.file[1].app_token
C34_Witness ==
    LET fr == Call IN
    /\ fr.op = "open" /\ fr.pc = "done"
    /\ IsPartial(fr.pre.file)
    /\ fr.n.auth = 1 /\ fr.n.built = 1
    /\ file[1].desc = app_desc

\* C35 - TLS verification failure is surfaced after teardown: a discover()
\* called by the user whose /api_version request fails certificate
\* verification raises HttpRequestError, it does not return None, and when it
\* raises the session is closed and fbx_desc is None.
C35_TlsFailureSurfaced ==
    LET fr == Call IN
    (fr.op = "discover" /\ fr.ans = "tls") =>
        /\ fr.pc \in {"disc_drain", "raised"}
        /\ fr.n.get = 1 /\ fr.n.sclose >= 1
        /\ fbx_desc = << >>
        /\ session /= 0 /\ ~SessOpen(sessions, session)
        /\ fr.pc = "raised" =>
              (fr.res.kind = "raise" /\ fr.res.exc = "HttpRequestError")
C35_Witness ==
    LET fr == Call IN
    /\ fr.op = "discover" /\ fr.ans = "tls" /\ fr.pc = "raised"
    /\ fr.res.exc = "HttpRequestError"
    /\ fr.pre.fbx_desc /= << >> /\ fbx_desc = << >>
    /\ OpenSessions(sessions) = {}

\* C36 - Close ordering: a close() called while the sender exists and its
\* session, the client's session, is open sends exactly one logout request
\* through the sender, sends it before the session is closed, and has closed
\* the session when it returns.
Authenticated(fr) ==
    /\ fr.pre.access /= << >>
    /\ fr.pre.live
    /\ fr.pre.access[1].session = fr.pre.session
C36_CloseOrdering ==
    LET fr == Call IN
    (fr.op = "close" /\ Authenticated(fr)) =>
        /\ fr.n.logout <= 1 /\ fr.n.sclose <= fr.n.logout
        /\ fr.pc = "close_logout" <=> fr.n.logout = 0
        /\ fr.n.logout = 0 => SessOpen(sessions, session)
        /\ fr.pc = "close_drain" => (fr.n.sclose = 1 /\ ~SessOpen(sessions, session))
        /\ fr.pc = "done" =>
              /\ fr.n.logout = 1 /\ fr.n.sclose = 1
              /\ session = fr.pre.session /\ sessions[session].closed
C36_Witness ==
    LET fr == Call IN
    /\ fr.op = "close" /\ Authenticated(fr) /\ fr.pc = "done"
    /\ fr.n.logout = 1 /\ sessions[session].closed

\* ------------------------------------------------- two overlapping calls
\* A second task calls discover() while the first is suspended in the
\* /api_version request or in the drain delay of _disc_close_to_return; it
\* does so at most once in a behaviour, during the client's first call.
StartOverlap(h, p) ==
    /\ frames["t1"].pc \in {"disc_get", "disc_drain"}
    /\ frames["t2"].op = "none" /\ scen = "wide"
    /\ frames' = [frames EXCEPT !["t2"] =
           [StartFrame(frames["t2"], "discover", h, p) EXCEPT !.pc = "disc", !.ret = "top"]]
    /\ UNCHANGED <<app_desc, box, scen, ops, api_version, fbx_desc, fbx_from, fbx_url, access,
                   session, sessions, file, issued>>

\* The event loop runs a task from one await to the next: a task that is not
\* at an await (pc "disc") goes first.  The first task's steps outside
\* discovery wait for the second task's call to end, and no call is started
\* after the two that overlapped.
MayRun(t, u) ==
    /\ frames[u].pc /= "disc"
    /\ Finished(frames[u]) \/ frames[t].pc \in {"disc", "disc_get", "disc_drain"}
    /\ frames[u].op = "none" \/ ~Finished(frames[t])
ConcNext ==
    \/ MayRun("t1", "t2") /\ Next
    \/ \E a \in SeqArgs : StartOverlap(a[1], a[2])
    \/ MayRun("t2", "t1") /\ Disc("t2")
    \/ MayRun("t2", "t1") /\ DiscGet("t2")
    \/ MayRun("t2", "t1") /\ DiscDrain("t2")
ConcSpec == Init /\ [][ConcNext]_vars

\* C37 - Concurrent use corrupts shared state: with two overlapping calls a
\* state is reachable where the cached record was not answered by the target
\* of the client's live session, or where a call goes on with a session the
\* other call closed; with calls made one after the other no such state is
\* reachable.  Stated so it is violated: close() leaves the record cached, so
\* a discover() on another target after close() waits for its answer on a new
\* session while fbx_desc still holds the record of the old target.
Overlapped == frames["t2"].op /= "none"
Pending(t) == ConnKey(frames[t].dhost, frames[t].dport, frames[t].ds)
RecordMismatch ==
    /\ fbx_desc /= << >> /\ SessOpen(sessions, session)
    /\ \/ \E k \in Range(sessions[session].conns) : <<k>> /= fbx_from
       \/ \E t \in Tasks : frames[t].pc = "disc_get" /\ <<Pending(t)>> /= fbx_from
OnClosedSession(t) == frames[t].pc = "disc_get" /\ ~SessOpen(sessions, session)
Corrupted == RecordMismatch \/ \E t \in Tasks : OnClosedSession(t)
C37_SequentialClean ==
    Corrupted => Overlapped
\* What does hold: without an overlap no call waits on a closed session, and
\* the record differs from the live session's target only while a discover
\* pass that found the session closed by close() waits for its first answer.
C37_SequentialCleanButClose ==
    LET fr == Call IN
    ~Overlapped =>
        /\ \A t \in Tasks : ~OnClosedSession(t)
        /\ RecordMismatch =>
              /\ access /= << >>
              /\ fr.pc = "disc_get" /\ fr.n.get = 0
              /\ sessions[session].conns = << >>
              /\ session /= fr.pre.session
              /\ fbx_desc = fr.pre.fbx_desc
              /\ Finished(frames["t2"])
C37_Witness ==
    /\ Overlapped
    /\ OnClosedSession("t1")
    /\ frames["t2"].pc = "done" /\ frames["t2"].n.sclose = 1

====
